---- MODULE Spec2Model ----
(***************************************************************************)
(* A model of the storage package of softwarespot/go-helpers:             *)
(*   - LRUCache (lru_cache.go): the hash map and the intrusive doubly      *)
(*     linked recency list, with every exported operation and the sweep    *)
(*     pass, each of which runs under the cache mutex and is one action;   *)
(*   - LRUCache.StartCleanup / StopCleanup and the sweep goroutine, step   *)
(*     by step, for the interleavings of several callers;                  *)
(*   - Storage.New / startCleanup / Close (storage.go), step by step.      *)
(***************************************************************************)
EXTENDS Integers, Sequences, FiniteSets, TLC

(***************************************************************************)
(* Bounds of the model                                                     *)
(***************************************************************************)
\* the largest maxSize a cache is built with
MaxCap == 2

\* the keys: one more than the largest capacity, so that a full cache can meet a new key
Keys == {1, 2, 3}
Values == {"a", "b"}
\* the durations passed as expiration: none, and one tick of the clock
TTLs == {0, 1}
\* the expiration the cache is built with
Expirations == {1}
\* the instants of the clock: a node set at 0 to expire at 1 is fresh at 0, at its
\* expiry at 1 and expired at 2
Times == 0..2

\* the callers of StartCleanup / StopCleanup, and the most sweep goroutines
\* (and channels) their StartCleanup calls create in one run
NumCallers == 2
MaxStarts == 2

Callers == 1..NumCallers
Chans == 1..MaxStarts

\* the rows one table is given in a run, and the batch size the sweep deletes with
\* (startCleanup passes 1000: the model sweeps with a batch as small as its tables)
MaxRows == 2
BatchSize == 1

\* the tables of the collections: getNormalizedTableName("queue", name)
TableNames == {"queue_a", "queue_b"}
\* the durations passed to EnqueueEx: none, and one tick of the clock
RowTTLs == {0, 1}

\* the rows one statement of MSet / MAdd carries (defaultSetChunkSize is 199 and
\* defaultAddChunkSize 249: the model batches with a chunk as small as its calls)
ChunkSize == 1

\* the appends to the list in one run
MaxAppends == 3

\* the keys of a Map (K = string)
MapKeys == {"k1", "k2"}
\* a string that is not valid UTF-8, and what encoding/json writes in its place
InvalidUTF8 == "\\xff"
Replacement == "\\ufffd"
\* a value json.Marshal rejects (V = any holding math.NaN())
NaN == "NaN"
\* the values handed to the collections (V = any), all of which encode
CollValues == {"a", "b", InvalidUTF8}

\* the values handed to the list, queue, stack and priority queue
SeqValues == {"a", "b", NaN}
\* the priorities of the priority queue
Priorities == {1, 2}

\* the nil pointer, and the zero value of V
Nil == 0
ZeroValue == "zero"
\* the zero time.Time (expiresAt.IsZero()): a node that never expires
ZeroTime == -1

VARIABLES
    lru,        \* the LRUCache fields: nodes, head, tail, size, maxSize, expiration
    now,        \* time.Now()
    lastOp,     \* the last LRUCache call and what it returned
    recency,    \* history: the keys by last Set/SetWithTTL/successful Get, newest first
    setRun,     \* history: the keys of the calls so far while they are all Sets of new keys
    cleanupDone,    \* c.cleanupDone: Nil or the channel made by StartCleanup
    cleanupWg,      \* c.cleanupWg: the counter of the wait group
    mu,             \* c.mu: Unlocked, or who holds it
    closed,         \* the channels that have been closed
    made,           \* how many channels StartCleanup has made
    pc,             \* where each caller is in StartCleanup / StopCleanup
    local,          \* StopCleanup's local cleanupDone; in StartCleanup, the channel it made
    gpc,            \* where the sweep goroutine of each StartCleanup is
    gsel,           \* the channel the goroutine's select waits on (c.cleanupDone as read)
    sDb,            \* Storage.db: "open" or "closed"
    sRegisteredTables,  \* Storage.registeredTables
    sCleanupDone,   \* Storage.cleanupDone: Nil or the channel startCleanup made
    sCleanupWg,     \* Storage.cleanupWg: the counter of the wait group
    sChanClosed,    \* whether the channel startCleanup made has been closed
    rows,           \* the rows of each table: id and expires_at
    nextId,         \* the next AUTOINCREMENT id of each table
    spc,            \* where the goroutine of startCleanup is
    ssel,           \* the channel its select waits on (s.cleanupDone as read)
    sTableNames,    \* its tableNames, the clone of registeredTables
    sIdx,           \* the index of its range loop over tableNames
    cpc,            \* where the caller of Close is
    kind,           \* the collection constructed on the storage: "none" before
    tbl,            \* the rows of its table
    tblNextId,      \* the next AUTOINCREMENT id of its table
    res,            \* the last call on the collection and what it returned
    written,        \* history: per Map key, the last Set/SetEx not yet deleted or cleared
    ldel,           \* List.Delete in flight: the position whose row it has deleted and
                    \* not yet re-indexed the others, NoDelete when there is none
    colls,          \* the collections constructed on the storage: kind, name, table
    calls,          \* per concurrent caller, the call it is in and what it has read
    handle          \* the collection value: Cache.expiration, lastIterError, and
                    \* whether a sequence returned by Entries() is held

lruVars == <<lru, now, lastOp, recency, setRun>>
cleanupVars == <<cleanupDone, cleanupWg, mu, closed, made, pc, local, gpc, gsel>>

storageVars == <<sDb, sRegisteredTables, sCleanupDone, sCleanupWg, sChanClosed,
                 rows, nextId, spc, ssel, sTableNames, sIdx, cpc>>

\* the state of the constructors' registry, of the concurrent callers and of
\* the collection value; the calls of one caller at a time leave it alone
callVars == <<colls, calls, handle>>

collVars == <<kind, tbl, tblNextId, res, written, ldel, callVars>>

vars == <<lru, now, lastOp, recency, setRun,
          cleanupDone, cleanupWg, mu, closed, made, pc, local, gpc, gsel,
          sDb, sRegisteredTables, sCleanupDone, sCleanupWg, sChanClosed,
          rows, nextId, spc, ssel, sTableNames, sIdx, cpc,
          kind, tbl, tblNextId, res, written, ldel, colls, calls, handle>>

(***************************************************************************)
(* LRUCache: the data structure.  A node is addressed by its key: the map  *)
(* holds at most one node per key and a node is allocated only for a key   *)
(* that is not in the map.  lru.nodes[k] holds the fields of the node      *)
(* c.nodes[k] points to; prev and next hold the key of the node they       *)
(* point to, or Nil.                                                       *)
(***************************************************************************)
hasExpired(node, t) ==
    IF node.expiresAt = ZeroTime THEN FALSE ELSE t > node.expiresAt

NewLRUCache(maxSize, expiration) ==
    [nodes |-> <<>>, head |-> Nil, tail |-> Nil, size |-> 0,
     maxSize |-> maxSize, expiration |-> expiration]

\* n.f = v for the node n of cache c (a no-op on the nil pointer is never asked for)
SetField(c, n, f, v) ==
    [c EXCEPT !.nodes = [@ EXCEPT ![n] = [@ EXCEPT ![f] = v]]]

addNodeToFront(c, n) ==
    LET c1 == SetField(SetField(c, n, "next", c.head), n, "prev", Nil)
        c2 == IF c1.head # Nil THEN SetField(c1, c1.head, "prev", n) ELSE c1
        c3 == [c2 EXCEPT !.head = n]
    IN  IF c3.tail = Nil THEN [c3 EXCEPT !.tail = n] ELSE c3

\* moveNodeToFront without line 248, c.head.prev = node
moveNodeToFront_noHeadPrev(c, n) ==
    IF n = c.head THEN c
    ELSE
        LET node == c.nodes[n]
            c1 == IF node.prev # Nil THEN SetField(c, node.prev, "next", node.next) ELSE c
            c2 == IF node.next = Nil
                    THEN [c1 EXCEPT !.tail = node.prev]
                    ELSE SetField(c1, node.next, "prev", node.prev)
            c3 == SetField(SetField(c2, n, "next", c2.head), n, "prev", Nil)
        IN  [c3 EXCEPT !.head = n]

moveNodeToFront(c, n) ==
    IF n = c.head THEN c
    ELSE
        LET node == c.nodes[n]
            c1 == IF node.prev # Nil THEN SetField(c, node.prev, "next", node.next) ELSE c
            c2 == IF node.next = Nil
                    THEN [c1 EXCEPT !.tail = node.prev]
                    ELSE SetField(c1, node.next, "prev", node.prev)
            c3 == SetField(SetField(c2, n, "next", c2.head), n, "prev", Nil)
            c4 == SetField(c3, c3.head, "prev", n)
        IN  [c4 EXCEPT !.head = n]

deleteNode(c, n) ==
    IF n = Nil THEN c
    ELSE
        LET node == c.nodes[n]
            c1 == IF node.prev = Nil
                    THEN [c EXCEPT !.head = node.next]
                    ELSE SetField(c, node.prev, "next", node.next)
            c2 == IF node.next = Nil
                    THEN [c1 EXCEPT !.tail = node.prev]
                    ELSE SetField(c1, node.next, "prev", node.prev)
        IN  [c2 EXCEPT !.nodes = [k \in (DOMAIN c2.nodes) \ {n} |-> c2.nodes[k]],
                       !.size = @ - 1]

\* the loop of cleanupExpiredNodes, from node n towards the head
RECURSIVE sweepFrom(_, _, _)
sweepFrom(c, n, t) ==
    IF n = Nil THEN c
    ELSE
        LET prevNode == c.nodes[n].prev
            c1 == IF hasExpired(c.nodes[n], t) THEN deleteNode(c, n) ELSE c
        IN  sweepFrom(c1, prevNode, t)

cleanupExpiredNodes(c, t) == sweepFrom(c, c.tail, t)

\* updateNode without line 112, node.expiresAt = expiresAt
updateNode_keepExpiry(c, key, value, expiresAt) ==
    moveNodeToFront(SetField(c, key, "value", value), key)

\* SetWithTTL, the key is in the map: lines 110-115
updateNode(c, key, value, expiresAt) ==
    moveNodeToFront(
        SetField(SetField(c, key, "value", value), key, "expiresAt", expiresAt),
        key)

\* evictIfOver with >= for > on line 127
evictIfOver_atCapacity(c) ==
    IF c.size >= c.maxSize THEN deleteNode(c, c.tail) ELSE c

\* evictIfOver with c.head for c.tail on line 128
evictIfOver_head(c) ==
    IF c.size > c.maxSize THEN deleteNode(c, c.head) ELSE c

\* SetWithTTL, after the insert of a new node: lines 127-129
evictIfOver(c) ==
    IF c.size > c.maxSize THEN deleteNode(c, c.tail) ELSE c

\* SetWithTTL, the key is not in the map: lines 117-129
insertNode(c, key, value, expiresAt) ==
    LET node == [value |-> value, expiresAt |-> expiresAt, prev |-> Nil, next |-> Nil]
        c1 == [c EXCEPT !.nodes = [k \in (DOMAIN c.nodes) \cup {key} |->
                                     IF k = key THEN node ELSE c.nodes[k]]]
        c2 == addNodeToFront(c1, key)
        c3 == [c2 EXCEPT !.size = @ + 1]
    IN  evictIfOver(c3)

expiryOf(expiration, t) == IF expiration > 0 THEN t + expiration ELSE ZeroTime

setWithTTL(c, key, value, expiration, t) ==
    IF key \in DOMAIN c.nodes
    THEN updateNode(c, key, value, expiryOf(expiration, t))
    ELSE insertNode(c, key, value, expiryOf(expiration, t))

\* what Get, Has and Peek do to a key whose node has expired
dropExpired(c, key) == deleteNode(c, key)

\* getCache without line 149, c.moveNodeToFront(node)
getCache_noMove(c, key, t) ==
    IF key \notin DOMAIN c.nodes THEN c
    ELSE IF hasExpired(c.nodes[key], t) THEN dropExpired(c, key)
    ELSE c

getCache(c, key, t) ==
    IF key \notin DOMAIN c.nodes THEN c
    ELSE IF hasExpired(c.nodes[key], t) THEN dropExpired(c, key)
    ELSE moveNodeToFront(c, key)

hasCache(c, key, t) ==
    IF key \notin DOMAIN c.nodes THEN c
    ELSE IF hasExpired(c.nodes[key], t) THEN dropExpired(c, key)
    ELSE c

\* peekCache moving the node to the front, as Get does
peekCache_move(c, key, t) ==
    IF key \notin DOMAIN c.nodes THEN c
    ELSE IF hasExpired(c.nodes[key], t) THEN dropExpired(c, key)
    ELSE moveNodeToFront(c, key)

peekCache(c, key, t) ==
    IF key \notin DOMAIN c.nodes THEN c
    ELSE IF hasExpired(c.nodes[key], t) THEN dropExpired(c, key)
    ELSE c

deleteCache(c, key) ==
    IF key \in DOMAIN c.nodes THEN deleteNode(c, key) ELSE c

clearCache(c) ==
    [c EXCEPT !.nodes = <<>>, !.head = Nil, !.tail = Nil, !.size = 0]

\* the (value, ok) a read of key returns
Found(c, key, t) == key \in DOMAIN c.nodes /\ ~hasExpired(c.nodes[key], t)
ReadValue(c, key, t) == IF Found(c, key, t) THEN c.nodes[key].value ELSE ZeroValue

(***************************************************************************)
(* History of the calls, kept beside the cache                             *)
(***************************************************************************)
Without(s, k) == SelectSeq(s, LAMBDA x: x # k)
Touch(s, k) == <<k>> \o Without(s, k)
Kept(s, c) == SelectSeq(s, LAMBDA x: x \in DOMAIN c.nodes)

\* removed: the keys the call took out of the map
Removed == DOMAIN lru.nodes \ DOMAIN lru'.nodes
Op(name, key, ok, value, removed) ==
    [op |-> name, key |-> key, ok |-> ok, value |-> value, removed |-> removed]

\* setRun after a call: the run goes on only with a Set of a key not set before
Broken == <<Nil>>
RunAfterSet(key) ==
    IF setRun # Broken /\ Len(setRun) <= lru.maxSize /\ \A i \in 1..Len(setRun): setRun[i] # key
    THEN Append(setRun, key) ELSE Broken

(***************************************************************************)
(* LRUCache: the operations, each under c.mu                               *)
(***************************************************************************)
\* the zero value of sync.Mutex
Unlocked == <<"unlocked", 0>>

\* the fields NewLRUCache leaves at their zero value, and no call in progress
InitCleanup ==
    /\ cleanupDone = Nil
    /\ cleanupWg = 0
    /\ mu = Unlocked
    /\ closed = {}
    /\ made = 0
    /\ pc = [c \in Callers |-> "idle"]
    /\ local = [c \in Callers |-> Nil]
    /\ gpc = [g \in Chans |-> "none"]
    /\ gsel = [g \in Chans |-> Nil]

\* New (storage.go): the database is open, no table is registered, the goroutine
\* of startCleanup has been launched and has not run yet
InitStorage ==
    /\ sDb = "open"
    /\ sRegisteredTables = <<>>
    /\ sCleanupDone = Nil
    /\ sCleanupWg = 0
    /\ sChanClosed = FALSE
    /\ rows = [t \in TableNames |-> {}]
    /\ nextId = [t \in TableNames |-> 1]
    /\ spc = "start"
    /\ ssel = Nil
    /\ sTableNames = <<>>
    /\ sIdx = 0
    /\ cpc = "idle"

\* what a call returns: the operation and its arguments, then (value, ok, err),
\* the count of Size (for MSet / MAdd, history: the chunks executed in the
\* transaction) and the pairs or values of MGet / Entries
Result(op, key, arg, value, ok, err, n, out) ==
    [op |-> op, key |-> key, arg |-> arg, value |-> value, ok |-> ok, err |-> err,
     n |-> n, out |-> out, had |-> -1]

\* history: the expires_at of the row the call found under its key before it
\* ran, -1 when it found none
WithOld(r, found) ==
    IF found = {} THEN r ELSE [r EXCEPT !.had = (CHOOSE x \in found: TRUE).expiresAt]

\* history of a key: the value last written and the instant it expires at (0: never)
NoWrite == [v |-> ZeroValue, until |-> -1]
Wrote(v, t, d) == [v |-> v, until |-> IF d = 0 THEN 0 ELSE t + d]

\* no call of List.Delete is between its DELETE and its re-index
NoDelete == -1

\* a caller that is in no call
NoCall == [op |-> "idle"]

\* the fields of a collection value after its constructor: NewCache stores the
\* expiration (0 in the other kinds, which have none); lastIterError is nil
NewHandle(expiration) ==
    [expiration |-> expiration, lastIterError |-> "nil", seq |-> FALSE]

\* no collection has been constructed on the storage
InitColl ==
    /\ kind = "none"
    /\ tbl = {}
    /\ tblNextId = 1
    /\ res = Result("New", "", <<>>, ZeroValue, FALSE, "nil", 0, <<>>)
    /\ written = [k \in MapKeys |-> NoWrite]
    /\ ldel = NoDelete
    /\ colls = {}
    /\ calls = [c \in 1..NumCallers |-> NoCall]
    /\ handle = NewHandle(0)

InitLRU ==
    /\ \E m \in 1..MaxCap, e \in Expirations: lru = NewLRUCache(m, e)
    /\ InitStorage
    /\ InitColl
    /\ now = 0
    /\ lastOp = Op("New", Nil, FALSE, ZeroValue, {})
    /\ recency = <<>>
    /\ setRun = <<>>
    /\ InitCleanup

SetWithTTL(key, value, expiration) ==
    /\ lru' = setWithTTL(lru, key, value, expiration, now)
    /\ lastOp' = Op("Set", key, key \in DOMAIN lru.nodes, value, Removed)
    /\ recency' = Kept(Touch(recency, key), lru')
    /\ setRun' = RunAfterSet(key)
    /\ UNCHANGED now
    /\ UNCHANGED cleanupVars
    /\ UNCHANGED storageVars
    /\ UNCHANGED collVars

Set(key, value) == SetWithTTL(key, value, lru.expiration)

Get(key) ==
    /\ lru' = getCache(lru, key, now)
    /\ lastOp' = Op("Get", key, Found(lru, key, now), ReadValue(lru, key, now), Removed)
    /\ recency' = Kept(IF Found(lru, key, now) THEN Touch(recency, key) ELSE recency, lru')
    /\ setRun' = Broken
    /\ UNCHANGED now
    /\ UNCHANGED cleanupVars
    /\ UNCHANGED storageVars
    /\ UNCHANGED collVars

Has(key) ==
    /\ lru' = hasCache(lru, key, now)
    /\ lastOp' = Op("Has", key, Found(lru, key, now), ZeroValue, Removed)
    /\ recency' = Kept(recency, lru')
    /\ setRun' = Broken
    /\ UNCHANGED now
    /\ UNCHANGED cleanupVars
    /\ UNCHANGED storageVars
    /\ UNCHANGED collVars

Peek(key) ==
    /\ lru' = peekCache(lru, key, now)
    /\ lastOp' = Op("Peek", key, Found(lru, key, now), ReadValue(lru, key, now), Removed)
    /\ recency' = Kept(recency, lru')
    /\ setRun' = Broken
    /\ UNCHANGED now
    /\ UNCHANGED cleanupVars
    /\ UNCHANGED storageVars
    /\ UNCHANGED collVars

Delete(key) ==
    /\ lru' = deleteCache(lru, key)
    /\ lastOp' = Op("Delete", key, key \in DOMAIN lru.nodes, ZeroValue, Removed)
    /\ recency' = Kept(recency, lru')
    /\ setRun' = Broken
    /\ UNCHANGED now
    /\ UNCHANGED cleanupVars
    /\ UNCHANGED storageVars
    /\ UNCHANGED collVars

Clear ==
    /\ lru' = clearCache(lru)
    /\ lastOp' = Op("Clear", Nil, TRUE, ZeroValue, Removed)
    /\ recency' = Kept(recency, lru')
    /\ setRun' = Broken
    /\ UNCHANGED now
    /\ UNCHANGED cleanupVars
    /\ UNCHANGED storageVars
    /\ UNCHANGED collVars

Sweep ==
    /\ lru' = cleanupExpiredNodes(lru, now)
    /\ lastOp' = Op("Sweep", Nil, lru'.size < lru.size, ZeroValue, Removed)
    /\ recency' = Kept(recency, lru')
    /\ setRun' = Broken
    /\ UNCHANGED now
    /\ UNCHANGED cleanupVars
    /\ UNCHANGED storageVars
    /\ UNCHANGED collVars

Tick ==
    /\ now + 1 \in Times
    /\ now' = now + 1
    /\ UNCHANGED <<lru, lastOp, recency, setRun>>
    /\ UNCHANGED cleanupVars
    /\ UNCHANGED storageVars
    /\ UNCHANGED collVars

NextLRU ==
    \/ \E k \in Keys, v \in Values: Set(k, v)
    \/ \E k \in Keys, v \in Values, e \in TTLs: SetWithTTL(k, v, e)
    \/ \E k \in Keys: Get(k)
    \/ \E k \in Keys: Has(k)
    \/ \E k \in Keys: Peek(k)
    \/ \E k \in Keys: Delete(k)
    \/ Clear
    \/ Sweep
    \/ Tick

SpecLRU == InitLRU /\ [][NextLRU]_vars

(***************************************************************************)
(* LRUCache.StartCleanup, StopCleanup and the sweep goroutine, statement   *)
(* by statement.  The goroutine of the StartCleanup that made channel g is *)
(* goroutine g.  The cache is the one NewLRUCache built; its data          *)
(* operations are the actions of SpecLRU.                                  *)
(***************************************************************************)
Caller(c) == <<"caller", c>>
Sweeper(g) == <<"sweep", g>>

Goto(c, label) == pc' = [pc EXCEPT ![c] = label]
GGoto(g, label) == gpc' = [gpc EXCEPT ![g] = label]

\* the calls of StartCleanup that may still make a channel
Starting == {c \in Callers : pc[c] \in {"start_lock", "start_check", "start_add", "start_make"}}

\* a caller calls StartCleanup
CallStart(c) ==
    /\ pc[c] = "idle"
    /\ made + Cardinality(Starting) < MaxStarts
    /\ Goto(c, "start_lock")
    /\ UNCHANGED <<cleanupDone, cleanupWg, mu, closed, made, local, gpc, gsel>>
    /\ UNCHANGED lruVars
    /\ UNCHANGED storageVars
    /\ UNCHANGED collVars

\* line 52: c.mu.Lock()
StartLock(c) ==
    /\ pc[c] = "start_lock"
    /\ mu = Unlocked
    /\ mu' = Caller(c)
    /\ Goto(c, "start_check")
    /\ UNCHANGED <<cleanupDone, cleanupWg, closed, made, local, gpc, gsel>>
    /\ UNCHANGED lruVars
    /\ UNCHANGED storageVars
    /\ UNCHANGED collVars

\* lines 53-56: if c.cleanupDone != nil { c.mu.Unlock(); return }
StartCheck(c) ==
    /\ pc[c] = "start_check"
    /\ IF cleanupDone # Nil
       THEN mu' = Unlocked /\ Goto(c, "idle")
       ELSE mu' = mu /\ Goto(c, "start_add")
    /\ UNCHANGED <<cleanupDone, cleanupWg, closed, made, local, gpc, gsel>>
    /\ UNCHANGED lruVars
    /\ UNCHANGED storageVars
    /\ UNCHANGED collVars

\* line 58: c.cleanupWg.Add(1)
StartAdd(c) ==
    /\ pc[c] = "start_add"
    /\ cleanupWg' = cleanupWg + 1
    /\ Goto(c, "start_make")
    /\ UNCHANGED <<cleanupDone, mu, closed, made, local, gpc, gsel>>
    /\ UNCHANGED lruVars
    /\ UNCHANGED storageVars
    /\ UNCHANGED collVars

\* line 59: c.cleanupDone = make(chan struct{})
StartMake(c) ==
    /\ pc[c] = "start_make"
    /\ made' = made + 1
    /\ cleanupDone' = made + 1
    /\ local' = [local EXCEPT ![c] = made + 1]
    /\ Goto(c, "start_unlock")
    /\ UNCHANGED <<cleanupWg, mu, closed, gpc, gsel>>
    /\ UNCHANGED lruVars
    /\ UNCHANGED storageVars
    /\ UNCHANGED collVars

\* line 60: c.mu.Unlock()
StartUnlock(c) ==
    /\ pc[c] = "start_unlock"
    /\ mu' = Unlocked
    /\ Goto(c, "start_go")
    /\ UNCHANGED <<cleanupDone, cleanupWg, closed, made, local, gpc, gsel>>
    /\ UNCHANGED lruVars
    /\ UNCHANGED storageVars
    /\ UNCHANGED collVars

\* lines 62-76: go func() { ... }(), and StartCleanup returns
StartGo(c) ==
    /\ pc[c] = "start_go"
    /\ GGoto(local[c], "start")
    /\ local' = [local EXCEPT ![c] = Nil]
    /\ Goto(c, "idle")
    /\ UNCHANGED <<cleanupDone, cleanupWg, mu, closed, made, gsel>>
    /\ UNCHANGED lruVars
    /\ UNCHANGED storageVars
    /\ UNCHANGED collVars

\* lines 63-66: the goroutine defers cleanupWg.Done and starts its ticker
GTicker(g) ==
    /\ gpc[g] = "start"
    /\ GGoto(g, "select")
    /\ UNCHANGED <<cleanupDone, cleanupWg, mu, closed, made, pc, local, gsel>>
    /\ UNCHANGED lruVars
    /\ UNCHANGED storageVars
    /\ UNCHANGED collVars

\* lines 69-70: the select evaluates c.cleanupDone, without the mutex
GSelect(g) ==
    /\ gpc[g] = "select"
    /\ gsel' = [gsel EXCEPT ![g] = cleanupDone]
    /\ GGoto(g, "wait")
    /\ UNCHANGED <<cleanupDone, cleanupWg, mu, closed, made, pc, local>>
    /\ UNCHANGED lruVars
    /\ UNCHANGED storageVars
    /\ UNCHANGED collVars

\* a receive from ch can proceed: ch is closed (a receive from a nil channel never can)
canReceive(ch) == ch # Nil /\ ch \in closed

\* lines 70-71: case <-c.cleanupDone: return
GDone(g) ==
    /\ gpc[g] = "wait"
    /\ canReceive(gsel[g])
    /\ GGoto(g, "return")
    /\ UNCHANGED <<cleanupDone, cleanupWg, mu, closed, made, pc, local, gsel>>
    /\ UNCHANGED lruVars
    /\ UNCHANGED storageVars
    /\ UNCHANGED collVars

\* line 72: case <-ticker.C, a tick of the ticker has arrived
GTick(g) ==
    /\ gpc[g] = "wait"
    /\ GGoto(g, "sweep_lock")
    /\ UNCHANGED <<cleanupDone, cleanupWg, mu, closed, made, pc, local, gsel>>
    /\ UNCHANGED lruVars
    /\ UNCHANGED storageVars
    /\ UNCHANGED collVars

\* lines 73, 274: cleanupExpiredNodes takes c.mu
GSweepLock(g) ==
    /\ gpc[g] = "sweep_lock"
    /\ mu = Unlocked
    /\ mu' = Sweeper(g)
    /\ GGoto(g, "sweeping")
    /\ UNCHANGED <<cleanupDone, cleanupWg, closed, made, pc, local, gsel>>
    /\ UNCHANGED lruVars
    /\ UNCHANGED storageVars
    /\ UNCHANGED collVars

\* lines 275-290: the pass over the list, and the deferred c.mu.Unlock()
GSweep(g) ==
    /\ gpc[g] = "sweeping"
    /\ lru' = cleanupExpiredNodes(lru, now)
    /\ mu' = Unlocked
    /\ GGoto(g, "select")
    /\ UNCHANGED <<cleanupDone, cleanupWg, closed, made, pc, local, gsel>>
    /\ UNCHANGED <<now, lastOp, recency, setRun>>
    /\ UNCHANGED storageVars
    /\ UNCHANGED collVars

\* lines 63, 66: the deferred ticker.Stop() and c.cleanupWg.Done()
GExit(g) ==
    /\ gpc[g] = "return"
    /\ cleanupWg' = cleanupWg - 1
    /\ GGoto(g, "exited")
    /\ UNCHANGED <<cleanupDone, mu, closed, made, pc, local, gsel>>
    /\ UNCHANGED lruVars
    /\ UNCHANGED storageVars
    /\ UNCHANGED collVars

\* a caller calls StopCleanup
CallStop(c) ==
    /\ pc[c] = "idle"
    /\ Goto(c, "stop_lock")
    /\ UNCHANGED <<cleanupDone, cleanupWg, mu, closed, made, local, gpc, gsel>>
    /\ UNCHANGED lruVars
    /\ UNCHANGED storageVars
    /\ UNCHANGED collVars

\* line 81: c.mu.Lock()
StopLock(c) ==
    /\ pc[c] = "stop_lock"
    /\ mu = Unlocked
    /\ mu' = Caller(c)
    /\ Goto(c, "stop_check")
    /\ UNCHANGED <<cleanupDone, cleanupWg, closed, made, local, gpc, gsel>>
    /\ UNCHANGED lruVars
    /\ UNCHANGED storageVars
    /\ UNCHANGED collVars

\* lines 82-87: if c.cleanupDone == nil { c.mu.Unlock(); return }; cleanupDone := c.cleanupDone
StopCheck(c) ==
    /\ pc[c] = "stop_check"
    /\ IF cleanupDone = Nil
       THEN mu' = Unlocked /\ Goto(c, "idle") /\ local' = local
       ELSE mu' = mu /\ Goto(c, "stop_nil") /\ local' = [local EXCEPT ![c] = cleanupDone]
    /\ UNCHANGED <<cleanupDone, cleanupWg, closed, made, gpc, gsel>>
    /\ UNCHANGED lruVars
    /\ UNCHANGED storageVars
    /\ UNCHANGED collVars

\* line 88: c.cleanupDone = nil
StopNil(c) ==
    /\ pc[c] = "stop_nil"
    /\ cleanupDone' = Nil
    /\ Goto(c, "stop_unlock")
    /\ UNCHANGED <<cleanupWg, mu, closed, made, local, gpc, gsel>>
    /\ UNCHANGED lruVars
    /\ UNCHANGED storageVars
    /\ UNCHANGED collVars

\* line 89: c.mu.Unlock()
StopUnlock(c) ==
    /\ pc[c] = "stop_unlock"
    /\ mu' = Unlocked
    /\ Goto(c, "stop_close")
    /\ UNCHANGED <<cleanupDone, cleanupWg, closed, made, local, gpc, gsel>>
    /\ UNCHANGED lruVars
    /\ UNCHANGED storageVars
    /\ UNCHANGED collVars

\* line 91: close(cleanupDone)
StopClose(c) ==
    /\ pc[c] = "stop_close"
    /\ closed' = closed \cup {local[c]}
    /\ Goto(c, "stop_wait")
    /\ UNCHANGED <<cleanupDone, cleanupWg, mu, made, local, gpc, gsel>>
    /\ UNCHANGED lruVars
    /\ UNCHANGED storageVars
    /\ UNCHANGED collVars

\* Wait returning at once, whatever the counter
waitDone_noWait(n) == TRUE

\* Wait returns once the counter of the wait group is zero
waitDone(n) == n = 0

\* line 92: c.cleanupWg.Wait()
StopWait(c) ==
    /\ pc[c] = "stop_wait"
    /\ waitDone(cleanupWg)
    /\ Goto(c, "stop_returned")
    /\ UNCHANGED <<cleanupDone, cleanupWg, mu, closed, made, local, gpc, gsel>>
    /\ UNCHANGED lruVars
    /\ UNCHANGED storageVars
    /\ UNCHANGED collVars

\* line 93: StopCleanup returns
StopReturn(c) ==
    /\ pc[c] = "stop_returned"
    /\ local' = [local EXCEPT ![c] = Nil]
    /\ Goto(c, "idle")
    /\ UNCHANGED <<cleanupDone, cleanupWg, mu, closed, made, gpc, gsel>>
    /\ UNCHANGED lruVars
    /\ UNCHANGED storageVars
    /\ UNCHANGED collVars

\* the statements of a call in progress
CallerStep(c) ==
    \/ StartCheck(c) \/ StartAdd(c) \/ StartMake(c) \/ StartUnlock(c) \/ StartGo(c)
    \/ StopCheck(c) \/ StopNil(c) \/ StopUnlock(c) \/ StopClose(c)
    \/ StopWait(c) \/ StopReturn(c)

SweeperStep(g) ==
    \/ GTicker(g) \/ GSelect(g) \/ GDone(g) \/ GTick(g) \/ GSweep(g) \/ GExit(g)

\* the calls of the callers cs, and the sweep goroutines
NextCleanupOf(cs) ==
    \/ \E c \in cs: CallStart(c)
    \/ \E c \in cs: CallStop(c)
    \/ \E c \in cs: StartLock(c)
    \/ \E c \in cs: StopLock(c)
    \/ \E c \in cs: CallerStep(c)
    \/ \E g \in Chans: GSweepLock(g)
    \/ \E g \in Chans: SweeperStep(g)

NextCleanup == NextCleanupOf(Callers)

\* one caller, whose calls follow one another
NextOneCaller == NextCleanupOf({1})

\* the cache is built with the largest capacity of the model
InitCleanupSpec == InitLRU /\ lru.maxSize = MaxCap

SpecCleanup == InitCleanupSpec /\ [][NextCleanup]_vars

\* The scheduler runs every goroutine that can run; sync.Mutex hands the lock to a
\* waiter that keeps asking (starvation mode); the ticker keeps ticking; a select
\* whose closed channel is ready again and again takes that case in the end.
\* Nothing obliges a caller to make another call.
FairCleanup ==
    /\ \A c \in Callers: WF_vars(CallerStep(c))
    /\ \A c \in Callers: SF_vars(StartLock(c)) /\ SF_vars(StopLock(c))
    /\ \A g \in Chans: WF_vars(SweeperStep(g))
    /\ \A g \in Chans: SF_vars(GSweepLock(g))
    /\ \A g \in Chans: SF_vars(GDone(g))

FairSpecCleanup == SpecCleanup /\ FairCleanup

SpecOneCaller == InitCleanupSpec /\ [][NextOneCaller]_vars

FairSpecOneCaller == SpecOneCaller /\ FairCleanup

(***************************************************************************)
(* Storage (storage.go): New, startCleanup, Close, registerTable and       *)
(* cleanupExpired, statement by statement, with the queues that write the  *)
(* rows the sweep deletes.  The channel startCleanup makes is channel 1.   *)
(***************************************************************************)
SGoto(label) == spc' = label
CGoto(label) == cpc' = label

\* getKeyExpirationAsMilli (helpers.go)
getKeyExpirationAsMilli(expiration, t) ==
    IF expiration = 0 THEN 0 ELSE t + expiration

\* registerTable: append the name unless the list holds it
registerTable(tables, tableName) ==
    IF \E i \in 1..Len(tables): tables[i] = tableName
    THEN tables ELSE Append(tables, tableName)

\* NewQueue: create the table if absent and register it; an error once the
\* database is closed
NewQueue(name) ==
    /\ cpc \in {"idle", "returned"}
    /\ sDb = "open"
    /\ sRegisteredTables' = registerTable(sRegisteredTables, name)
    /\ UNCHANGED <<sDb, sCleanupDone, sCleanupWg, sChanClosed, rows, nextId,
                   spc, ssel, sTableNames, sIdx, cpc>>
    /\ UNCHANGED lruVars
    /\ UNCHANGED cleanupVars
    /\ UNCHANGED collVars

\* Queue.enqueue: INSERT INTO table (value, expires_at, created_at)
Enqueue(name, expiration) ==
    /\ cpc \in {"idle", "returned"}
    /\ sDb = "open"
    /\ \E i \in 1..Len(sRegisteredTables): sRegisteredTables[i] = name
    /\ nextId[name] <= MaxRows
    /\ rows' = [rows EXCEPT ![name] = @ \cup
                  {[id |-> nextId[name],
                    expiresAt |-> getKeyExpirationAsMilli(expiration, now)]}]
    /\ nextId' = [nextId EXCEPT ![name] = @ + 1]
    /\ UNCHANGED <<sDb, sRegisteredTables, sCleanupDone, sCleanupWg, sChanClosed,
                   spc, ssel, sTableNames, sIdx, cpc>>
    /\ UNCHANGED lruVars
    /\ UNCHANGED cleanupVars
    /\ UNCHANGED collVars

\* line 66: if s.cleanupDone != nil { return }
SStart ==
    /\ spc = "start"
    /\ IF sCleanupDone # Nil THEN SGoto("exited") ELSE SGoto("add")
    /\ UNCHANGED <<sDb, sRegisteredTables, sCleanupDone, sCleanupWg, sChanClosed,
                   rows, nextId, ssel, sTableNames, sIdx, cpc>>
    /\ UNCHANGED lruVars
    /\ UNCHANGED cleanupVars
    /\ UNCHANGED collVars

\* line 70: s.cleanupWg.Add(1)
SAdd ==
    /\ spc = "add"
    /\ sCleanupWg' = sCleanupWg + 1
    /\ SGoto("make")
    /\ UNCHANGED <<sDb, sRegisteredTables, sCleanupDone, sChanClosed,
                   rows, nextId, ssel, sTableNames, sIdx, cpc>>
    /\ UNCHANGED lruVars
    /\ UNCHANGED cleanupVars
    /\ UNCHANGED collVars

\* lines 71-76: s.cleanupDone = make(chan struct{}); defer Done; the ticker
SMake ==
    /\ spc = "make"
    /\ sCleanupDone' = 1
    /\ SGoto("select")
    /\ UNCHANGED <<sDb, sRegisteredTables, sCleanupWg, sChanClosed,
                   rows, nextId, ssel, sTableNames, sIdx, cpc>>
    /\ UNCHANGED lruVars
    /\ UNCHANGED cleanupVars
    /\ UNCHANGED collVars

\* lines 79-80: the select evaluates s.cleanupDone
SSelect ==
    /\ spc = "select"
    /\ ssel' = sCleanupDone
    /\ SGoto("wait")
    /\ UNCHANGED <<sDb, sRegisteredTables, sCleanupDone, sCleanupWg, sChanClosed,
                   rows, nextId, sTableNames, sIdx, cpc>>
    /\ UNCHANGED lruVars
    /\ UNCHANGED cleanupVars
    /\ UNCHANGED collVars

\* lines 80-81: case <-s.cleanupDone: return
SDone ==
    /\ spc = "wait"
    /\ ssel # Nil /\ sChanClosed
    /\ SGoto("return")
    /\ UNCHANGED <<sDb, sRegisteredTables, sCleanupDone, sCleanupWg, sChanClosed,
                   rows, nextId, ssel, sTableNames, sIdx, cpc>>
    /\ UNCHANGED lruVars
    /\ UNCHANGED cleanupVars
    /\ UNCHANGED collVars

\* lines 82-85: case <-ticker.C, and the clone of registeredTables under its mutex
STick ==
    /\ spc = "wait"
    /\ sTableNames' = sRegisteredTables
    /\ sIdx' = 1
    /\ SGoto("tables")
    /\ UNCHANGED <<sDb, sRegisteredTables, sCleanupDone, sCleanupWg, sChanClosed,
                   rows, nextId, ssel, cpc>>
    /\ UNCHANGED lruVars
    /\ UNCHANGED cleanupVars
    /\ UNCHANGED collVars

\* line 87: for _, tableName := range tableNames
SNextTable ==
    /\ spc = "tables"
    /\ IF sIdx > Len(sTableNames) THEN SGoto("select") ELSE SGoto("exec")
    /\ UNCHANGED <<sDb, sRegisteredTables, sCleanupDone, sCleanupWg, sChanClosed,
                   rows, nextId, ssel, sTableNames, sIdx, cpc>>
    /\ UNCHANGED lruVars
    /\ UNCHANGED cleanupVars
    /\ UNCHANGED collVars

\* a DELETE whose WHERE has lost `expires_at != 0`
expiredRows_noZeroTest(table, t) == {r \in table : r.expiresAt <= t}

\* the rows the sweep's DELETE matches: expires_at != 0 AND expires_at <= now
expiredRows(table, t) == {r \in table : r.expiresAt # 0 /\ r.expiresAt <= t}

\* the sets of rows one DELETE ... ORDER BY expires_at ASC LIMIT batchSize may take
batches(table, t, batchSize) ==
    LET e == expiredRows(table, t)
        n == IF Cardinality(e) < batchSize THEN Cardinality(e) ELSE batchSize
    IN  {b \in SUBSET e :
            /\ Cardinality(b) = n
            /\ \A x \in b, y \in e \ b: x.expiresAt <= y.expiresAt}

\* lines 116-140 (cleanupExpired): one DELETE of the loop; on a closed database
\* Exec fails and cleanupExpired returns; the loop ends after a batch that
\* deleted fewer rows than batchSize
SExec ==
    /\ spc = "exec"
    /\ LET t == sTableNames[sIdx]
       IN  IF sDb = "closed"
           THEN /\ rows' = rows
                /\ sIdx' = sIdx + 1
                /\ SGoto("tables")
           ELSE \E b \in batches(rows[t], now, BatchSize):
                /\ rows' = [rows EXCEPT ![t] = @ \ b]
                /\ IF Cardinality(b) < BatchSize
                   THEN sIdx' = sIdx + 1 /\ SGoto("tables")
                   ELSE sIdx' = sIdx /\ SGoto("exec")
    /\ UNCHANGED <<sDb, sRegisteredTables, sCleanupDone, sCleanupWg, sChanClosed,
                   nextId, ssel, sTableNames, cpc>>
    /\ UNCHANGED lruVars
    /\ UNCHANGED cleanupVars
    /\ UNCHANGED collVars

\* lines 73, 76: the deferred ticker.Stop() and s.cleanupWg.Done()
SExit ==
    /\ spc = "return"
    /\ sCleanupWg' = sCleanupWg - 1
    /\ SGoto("exited")
    /\ UNCHANGED <<sDb, sRegisteredTables, sCleanupDone, sChanClosed,
                   rows, nextId, ssel, sTableNames, sIdx, cpc>>
    /\ UNCHANGED lruVars
    /\ UNCHANGED cleanupVars
    /\ UNCHANGED collVars

\* Close is called (again, after it has returned)
CallClose ==
    /\ cpc \in {"idle", "returned"}
    /\ CGoto("close_chan")
    /\ UNCHANGED <<sDb, sRegisteredTables, sCleanupDone, sCleanupWg, sChanClosed,
                   rows, nextId, spc, ssel, sTableNames, sIdx>>
    /\ UNCHANGED lruVars
    /\ UNCHANGED cleanupVars
    /\ UNCHANGED collVars

\* line 95: close(s.cleanupDone); the close of a nil or closed channel panics.
\* The field is read with no synchronisation with the goroutine that writes it:
\* the read yields what the goroutine wrote or the nil that New left
CloseChan ==
    /\ cpc = "close_chan"
    /\ \E seen \in {sCleanupDone, Nil}:
           IF seen = Nil \/ sChanClosed
           THEN sChanClosed' = sChanClosed /\ CGoto("panicked")
           ELSE sChanClosed' = TRUE /\ CGoto("close_wait")
    /\ UNCHANGED <<sDb, sRegisteredTables, sCleanupDone, sCleanupWg,
                   rows, nextId, spc, ssel, sTableNames, sIdx>>
    /\ UNCHANGED lruVars
    /\ UNCHANGED cleanupVars
    /\ UNCHANGED collVars

\* Wait returning at once, whatever the counter
closeWaitDone_noWait(n) == TRUE

\* Wait returns once the counter of the wait group is zero
closeWaitDone(n) == n = 0

\* line 96: s.cleanupWg.Wait()
CloseWait ==
    /\ cpc = "close_wait"
    /\ closeWaitDone(sCleanupWg)
    /\ CGoto("close_nil")
    /\ UNCHANGED <<sDb, sRegisteredTables, sCleanupDone, sCleanupWg, sChanClosed,
                   rows, nextId, spc, ssel, sTableNames, sIdx>>
    /\ UNCHANGED lruVars
    /\ UNCHANGED cleanupVars
    /\ UNCHANGED collVars

\* line 97: s.cleanupDone = nil
CloseNil ==
    /\ cpc = "close_nil"
    /\ sCleanupDone' = Nil
    /\ CGoto("close_db")
    /\ UNCHANGED <<sDb, sRegisteredTables, sCleanupWg, sChanClosed,
                   rows, nextId, spc, ssel, sTableNames, sIdx>>
    /\ UNCHANGED lruVars
    /\ UNCHANGED cleanupVars
    /\ UNCHANGED collVars

\* lines 99-102: s.db.Close(), and Close returns
CloseDb ==
    /\ cpc = "close_db"
    /\ sDb' = "closed"
    /\ CGoto("returned")
    /\ UNCHANGED <<sRegisteredTables, sCleanupDone, sCleanupWg, sChanClosed,
                   rows, nextId, spc, ssel, sTableNames, sIdx>>
    /\ UNCHANGED lruVars
    /\ UNCHANGED cleanupVars
    /\ UNCHANGED collVars

NextStorage ==
    \/ \E name \in TableNames: NewQueue(name)
    \/ \E name \in TableNames, e \in RowTTLs: Enqueue(name, e)
    \/ Tick
    \/ SStart \/ SAdd \/ SMake \/ SSelect \/ SDone \/ STick
    \/ SNextTable \/ SExec \/ SExit
    \/ CallClose \/ CloseChan \/ CloseWait \/ CloseNil \/ CloseDb

SpecStorage == InitCleanupSpec /\ [][NextStorage]_vars

(***************************************************************************)
(* The collections on the storage (cache.go, set.go, the list, queue, stack *)
(* and priority queue): one collection is constructed in a run; every call  *)
(* is one SQL statement or one transaction, hence one action; the sweep     *)
(* deletes from its table one batch at a time.                              *)
(***************************************************************************)
baseVars == <<lruVars, cleanupVars, storageVars, callVars>>

\* what a call that changes callVars leaves alone
coreVars == <<lruVars, cleanupVars, storageVars>>

\* nowUnixMilli (helpers.go): the clock, read in milliseconds
nowUnixMilli == now

\* a row that is never reported expired
hasKeyExpired_never(expiresAt, t) == FALSE

\* hasKeyExpired (helpers.go)
hasKeyExpired(expiresAt, t) ==
    IF expiresAt = 0 THEN FALSE ELSE expiresAt < t

\* the liveness filter of the queries: expires_at = 0 OR expires_at > ?
liveRow(r, t) == r.expiresAt = 0 \/ r.expiresAt > t

\* encode (helpers.go): json.Marshal fails on a value JSON has no form for and
\* writes a string coerced to valid UTF-8, each invalid byte replaced by U+FFFD
encodeFails(v) == v = NaN
encode(v) == <<"json", IF v = InvalidUTF8 THEN Replacement ELSE v>>

\* decode (helpers.go): json.Unmarshal of what encode wrote
decode(encValue) == encValue[2]

\* getHashedKey (helpers.go): the hex SHA-256 of the encoding
getHashedKey(ev) == <<"sha256", ev>>

\* the rows under a key hash (key_hash is the primary key: at most one)
rowsOf(t, h) == {r \in t : r.keyHash = h}

\* NewMap: create the table if absent and register it
NewMap ==
    /\ kind = "none"
    /\ kind' = "map"
    /\ res' = Result("NewMap", "", <<>>, ZeroValue, FALSE, "nil", 0, <<>>)
    /\ UNCHANGED <<tbl, tblNextId, written, ldel>>
    /\ UNCHANGED baseVars

\* an upsert that leaves expires_at as it was
mapUpsert_keepExpiry(t, k, v, expiresAt, updatedAt) ==
    LET h == getHashedKey(encode(k))
    IN  IF rowsOf(t, h) = {}
        THEN t \cup {[keyHash |-> h, key |-> encode(k), value |-> encode(v),
                      expiresAt |-> expiresAt, updatedAt |-> updatedAt]}
        ELSE {IF r.keyHash = h
              THEN [r EXCEPT !.value = encode(v), !.updatedAt = updatedAt]
              ELSE r : r \in t}

\* the upsert of Map.set and execSetBatch: INSERT ... ON CONFLICT(key_hash) DO
\* UPDATE SET value, expires_at, updated_at
mapUpsert(t, k, v, expiresAt, updatedAt) ==
    LET h == getHashedKey(encode(k))
    IN  IF rowsOf(t, h) = {}
        THEN t \cup {[keyHash |-> h, key |-> encode(k), value |-> encode(v),
                      expiresAt |-> expiresAt, updatedAt |-> updatedAt]}
        ELSE {IF r.keyHash = h
              THEN [r EXCEPT !.value = encode(v), !.expiresAt = expiresAt,
                             !.updatedAt = updatedAt]
              ELSE r : r \in t}

\* Map.set (Set with expiration 0, SetEx)
MapSet(k, v, expiration) ==
    /\ kind = "map"
    /\ LET r == Result("Map.Set", k, [v |-> v, d |-> expiration], ZeroValue, FALSE, "nil", 0, <<>>)
           found == rowsOf(tbl, getHashedKey(encode(k)))
       IN  IF encodeFails(v)
           THEN /\ res' = WithOld([r EXCEPT !.err = "encode"], found)
                /\ UNCHANGED <<tbl, written>>
           ELSE /\ tbl' = mapUpsert(tbl, k, v,
                                    getKeyExpirationAsMilli(expiration, nowUnixMilli),
                                    nowUnixMilli)
                /\ res' = WithOld(r, found)
                /\ written' = [written EXCEPT ![k] = Wrote(v, now, expiration)]
    /\ UNCHANGED <<kind, tblNextId, ldel>>
    /\ UNCHANGED baseVars

\* Map.Get: the row by key_hash, then hasKeyExpired, then decode
mapGet(t, k, at) ==
    LET found == rowsOf(t, getHashedKey(encode(k)))
    IN  IF found = {} THEN <<ZeroValue, FALSE, "nil">>
        ELSE LET r == CHOOSE x \in found: TRUE
             IN  IF hasKeyExpired(r.expiresAt, at) THEN <<ZeroValue, FALSE, "nil">>
                 ELSE <<decode(r.value), TRUE, "nil">>

MapGet(k) ==
    /\ kind = "map"
    /\ LET g == mapGet(tbl, k, nowUnixMilli)
       IN  res' = Result("Map.Get", k, <<>>, g[1], g[2], g[3], 0, <<>>)
    /\ UNCHANGED <<kind, tbl, tblNextId, written, ldel>>
    /\ UNCHANGED baseVars

\* a Has whose SELECT has no liveness filter
mapHas_noFilter(t, k, at) == rowsOf(t, getHashedKey(encode(k))) # {}

\* Map.Has: SELECT EXISTS(... key_hash = ? AND (expires_at = 0 OR expires_at > ?))
mapHas(t, k, at) ==
    \E r \in rowsOf(t, getHashedKey(encode(k))): liveRow(r, at)

MapHas(k) ==
    /\ kind = "map"
    /\ res' = Result("Map.Has", k, <<>>, ZeroValue, mapHas(tbl, k, nowUnixMilli),
                     "nil", 0, <<>>)
    /\ UNCHANGED <<kind, tbl, tblNextId, written, ldel>>
    /\ UNCHANGED baseVars

\* Map.MGet: key_hash IN (...) AND (expires_at = 0 OR expires_at > ?), decoded
mapMGet(t, keys, at) ==
    {<<decode(r.key), decode(r.value)>> :
        r \in {x \in t : /\ \E k \in keys: x.keyHash = getHashedKey(encode(k))
                         /\ liveRow(x, at)}}

MapMGet(keys) ==
    /\ kind = "map"
    /\ res' = Result("Map.MGet", "", keys, ZeroValue, TRUE, "nil", 0,
                     mapMGet(tbl, keys, nowUnixMilli))
    /\ UNCHANGED <<kind, tbl, tblNextId, written, ldel>>
    /\ UNCHANGED baseVars

\* Map.Size: SELECT COUNT(*) ... WHERE expires_at = 0 OR expires_at > ?
mapSize(t, at) == Cardinality({r \in t : liveRow(r, at)})

MapSize ==
    /\ kind = "map"
    /\ res' = Result("Map.Size", "", <<>>, ZeroValue, TRUE, "nil", mapSize(tbl, nowUnixMilli), <<>>)
    /\ UNCHANGED <<kind, tbl, tblNextId, written, ldel>>
    /\ UNCHANGED baseVars

\* the sequences that hold every element of S once
Orders(S) ==
    {q \in [1..Cardinality(S) -> S] : \A i, j \in 1..Cardinality(S): i # j => q[i] # q[j]}

\* Map.Entries: the live rows ORDER BY updated_at DESC, decoded
mapEntries(t, at) ==
    {[i \in DOMAIN q |-> <<decode(q[i].key), decode(q[i].value)>>] :
        q \in {o \in Orders({r \in t : liveRow(r, at)}) :
                 \A i, j \in DOMAIN o: i < j => o[i].updatedAt >= o[j].updatedAt}}

MapEntries ==
    /\ kind = "map"
    /\ \E e \in mapEntries(tbl, nowUnixMilli):
           res' = Result("Map.Entries", "", <<>>, ZeroValue, TRUE, "nil", 0, e)
    /\ UNCHANGED <<kind, tbl, tblNextId, written, ldel>>
    /\ UNCHANGED baseVars

\* DELETE with no WHERE clause
mapDelete_all(t, k) == {}

\* Map.Delete: DELETE FROM table WHERE key_hash = ?
mapDelete(t, k) == t \ rowsOf(t, getHashedKey(encode(k)))

MapDelete(k) ==
    /\ kind = "map"
    /\ tbl' = mapDelete(tbl, k)
    /\ res' = WithOld(Result("Map.Delete", k, <<>>, ZeroValue, FALSE, "nil", 0, <<>>),
                      rowsOf(tbl, getHashedKey(encode(k))))
    /\ written' = [written EXCEPT ![k] = NoWrite]
    /\ UNCHANGED <<kind, tblNextId, ldel>>
    /\ UNCHANGED baseVars

\* Map.Clear: DELETE FROM table
MapClear ==
    /\ kind = "map"
    /\ tbl' = {}
    /\ res' = Result("Map.Clear", "", <<>>, ZeroValue, FALSE, "nil", 0, <<>>)
    /\ written' = [k \in MapKeys |-> NoWrite]
    /\ UNCHANGED <<kind, tblNextId, ldel>>
    /\ UNCHANGED baseVars

\* execSetBatch: one INSERT ... ON CONFLICT DO UPDATE of the rows of a chunk
RECURSIVE execSetBatch(_, _, _, _)
execSetBatch(tx, chunk, expiresAt, updatedAt) ==
    IF chunk = <<>> THEN tx
    ELSE execSetBatch(mapUpsert(tx, Head(chunk)[1], Head(chunk)[2], expiresAt, updatedAt),
                      Tail(chunk), expiresAt, updatedAt)

\* the function Map.mset hands to execTransaction: the loop over the pairs in the
\* order the range yields them, from pair i with the chunk collected so far and
\* chunkNo chunks executed; the Exec of chunk number failAt fails (0: none does)
RECURSIVE msetLoop(_, _, _, _, _, _, _, _)
msetLoop(tx, pairs, i, chunk, chunkNo, failAt, expiresAt, updatedAt) ==
    IF i > Len(pairs)
    THEN IF chunk = <<>> THEN [err |-> "nil", tx |-> tx, done |-> chunkNo]
         ELSE IF chunkNo + 1 = failAt THEN [err |-> "exec", tx |-> tx, done |-> chunkNo]
         ELSE [err |-> "nil", tx |-> execSetBatch(tx, chunk, expiresAt, updatedAt),
               done |-> chunkNo + 1]
    ELSE IF encodeFails(pairs[i][2]) THEN [err |-> "encode", tx |-> tx, done |-> chunkNo]
    ELSE LET chunk2 == Append(chunk, pairs[i])
         IN  IF Len(chunk2) = ChunkSize
             THEN IF chunkNo + 1 = failAt THEN [err |-> "exec", tx |-> tx, done |-> chunkNo]
                  ELSE msetLoop(execSetBatch(tx, chunk2, expiresAt, updatedAt), pairs, i + 1,
                                <<>>, chunkNo + 1, failAt, expiresAt, updatedAt)
             ELSE msetLoop(tx, pairs, i + 1, chunk2, chunkNo, failAt, expiresAt, updatedAt)

\* a transaction that commits whatever its function returned
execTransaction_noRollback(db, r) == [err |-> r.err, db |-> r.tx]

\* execTransaction (helpers.go): Rollback when the function returns an error,
\* Commit otherwise
execTransaction(db, r) ==
    IF r.err # "nil" THEN [err |-> r.err, db |-> db] ELSE [err |-> "nil", db |-> r.tx]

\* Map.mset (MSet with expiration 0, MSetEx): pairs is a Go map, ranged in any order
MapMSet(pairs, expiration) ==
    /\ kind = "map"
    /\ LET r == Result("Map.MSet", "", [pairs |-> pairs, d |-> expiration], ZeroValue, FALSE,
                       "nil", 0, <<>>)
       IN  IF DOMAIN pairs = {}
           THEN /\ res' = r
                /\ UNCHANGED <<tbl, written>>
           ELSE \E order \in Orders(DOMAIN pairs), failAt \in 0..Cardinality(DOMAIN pairs):
                LET seq == [i \in DOMAIN order |-> <<order[i], pairs[order[i]]>>]
                    l == msetLoop(tbl, seq, 1, <<>>, 0, failAt,
                                  getKeyExpirationAsMilli(expiration, nowUnixMilli),
                                  nowUnixMilli)
                    t == execTransaction(tbl, l)
                IN  /\ tbl' = t.db
                    /\ res' = [r EXCEPT !.err = t.err, !.n = l.done]
                    /\ written' = IF t.err # "nil" THEN written
                                  ELSE [k \in MapKeys |->
                                          IF k \in DOMAIN pairs
                                          THEN Wrote(pairs[k], now, expiration)
                                          ELSE written[k]]
    /\ UNCHANGED <<kind, tblNextId, ldel>>
    /\ UNCHANGED baseVars

(***************************************************************************)
(* Set (set.go): a row per member, under the hash of its encoding          *)
(***************************************************************************)
NewSet ==
    /\ kind = "none"
    /\ kind' = "set"
    /\ res' = Result("NewSet", "", <<>>, ZeroValue, FALSE, "nil", 0, <<>>)
    /\ UNCHANGED <<tbl, tblNextId, written, ldel>>
    /\ UNCHANGED baseVars

\* an INSERT that adds a row whatever the table holds
setUpsert_append(t, v, expiresAt, updatedAt) ==
    t \cup {[keyHash |-> getHashedKey(encode(v)), value |-> encode(v),
             expiresAt |-> expiresAt, updatedAt |-> updatedAt]}

\* an upsert that leaves expires_at as it was
setUpsert_keepExpiry(t, v, expiresAt, updatedAt) ==
    LET h == getHashedKey(encode(v))
    IN  IF rowsOf(t, h) = {}
        THEN t \cup {[keyHash |-> h, value |-> encode(v),
                      expiresAt |-> expiresAt, updatedAt |-> updatedAt]}
        ELSE {IF r.keyHash = h THEN [r EXCEPT !.updatedAt = updatedAt] ELSE r : r \in t}

\* the upsert of Set.add and execAddBatch: INSERT ... ON CONFLICT(key_hash) DO
\* UPDATE SET expires_at, updated_at
setUpsert(t, v, expiresAt, updatedAt) ==
    LET h == getHashedKey(encode(v))
    IN  IF rowsOf(t, h) = {}
        THEN t \cup {[keyHash |-> h, value |-> encode(v),
                      expiresAt |-> expiresAt, updatedAt |-> updatedAt]}
        ELSE {IF r.keyHash = h
              THEN [r EXCEPT !.expiresAt = expiresAt, !.updatedAt = updatedAt]
              ELSE r : r \in t}

\* Set.add (Add with expiration 0, AddEx)
SetAdd(v, expiration) ==
    /\ kind = "set"
    /\ LET r == Result("Set.Add", v, [d |-> expiration], ZeroValue, FALSE, "nil", 0, <<>>)
       IN  IF encodeFails(v)
           THEN /\ res' = [r EXCEPT !.err = "encode"]
                /\ tbl' = tbl
           ELSE /\ tbl' = setUpsert(tbl, v,
                                    getKeyExpirationAsMilli(expiration, nowUnixMilli),
                                    nowUnixMilli)
                /\ res' = WithOld(r, rowsOf(tbl, getHashedKey(encode(v))))
    /\ UNCHANGED <<kind, tblNextId, written, ldel>>
    /\ UNCHANGED baseVars

\* execAddBatch: one INSERT ... ON CONFLICT DO UPDATE of the rows of a chunk
RECURSIVE execAddBatch(_, _, _, _)
execAddBatch(tx, chunk, expiresAt, updatedAt) ==
    IF chunk = <<>> THEN tx
    ELSE execAddBatch(setUpsert(tx, Head(chunk), expiresAt, updatedAt),
                      Tail(chunk), expiresAt, updatedAt)

\* the function Set.madd hands to execTransaction: the loop over the values from
\* value i, as msetLoop
RECURSIVE maddLoop(_, _, _, _, _, _, _, _)
maddLoop(tx, values, i, chunk, chunkNo, failAt, expiresAt, updatedAt) ==
    IF i > Len(values)
    THEN IF chunk = <<>> THEN [err |-> "nil", tx |-> tx, done |-> chunkNo]
         ELSE IF chunkNo + 1 = failAt THEN [err |-> "exec", tx |-> tx, done |-> chunkNo]
         ELSE [err |-> "nil", tx |-> execAddBatch(tx, chunk, expiresAt, updatedAt),
               done |-> chunkNo + 1]
    ELSE IF encodeFails(values[i]) THEN [err |-> "encode", tx |-> tx, done |-> chunkNo]
    ELSE LET chunk2 == Append(chunk, values[i])
         IN  IF Len(chunk2) = ChunkSize
             THEN IF chunkNo + 1 = failAt THEN [err |-> "exec", tx |-> tx, done |-> chunkNo]
                  ELSE maddLoop(execAddBatch(tx, chunk2, expiresAt, updatedAt), values, i + 1,
                                <<>>, chunkNo + 1, failAt, expiresAt, updatedAt)
             ELSE maddLoop(tx, values, i + 1, chunk2, chunkNo, failAt, expiresAt, updatedAt)

\* Set.madd (MAdd with expiration 0, MAddEx)
SetMAdd(values, expiration) ==
    /\ kind = "set"
    /\ LET r == Result("Set.MAdd", "", [values |-> values, d |-> expiration], ZeroValue, FALSE,
                       "nil", 0, <<>>)
       IN  IF values = <<>>
           THEN res' = r /\ tbl' = tbl
           ELSE \E failAt \in 0..Len(values):
                LET l == maddLoop(tbl, values, 1, <<>>, 0, failAt,
                                  getKeyExpirationAsMilli(expiration, nowUnixMilli),
                                  nowUnixMilli)
                    t == execTransaction(tbl, l)
                IN  /\ tbl' = t.db
                    /\ res' = [r EXCEPT !.err = t.err, !.n = l.done]
    /\ UNCHANGED <<kind, tblNextId, written, ldel>>
    /\ UNCHANGED baseVars

\* Set.Has: SELECT EXISTS(... key_hash = ? AND (expires_at = 0 OR expires_at > ?))
setHas(t, v, at) ==
    \E r \in rowsOf(t, getHashedKey(encode(v))): liveRow(r, at)

SetHas(v) ==
    /\ kind = "set"
    /\ res' = IF encodeFails(v)
              THEN Result("Set.Has", v, <<>>, ZeroValue, FALSE, "encode", 0, <<>>)
              ELSE Result("Set.Has", v, <<>>, ZeroValue, setHas(tbl, v, nowUnixMilli), "nil", 0, <<>>)
    /\ UNCHANGED <<kind, tbl, tblNextId, written, ldel>>
    /\ UNCHANGED baseVars

\* Set.Size: SELECT COUNT(*) ... WHERE expires_at = 0 OR expires_at > ?
setSize(t, at) == Cardinality({r \in t : liveRow(r, at)})

SetSize ==
    /\ kind = "set"
    /\ res' = Result("Set.Size", "", <<>>, ZeroValue, TRUE, "nil", setSize(tbl, nowUnixMilli), <<>>)
    /\ UNCHANGED <<kind, tbl, tblNextId, written, ldel>>
    /\ UNCHANGED baseVars

\* Set.Entries: the values of the live rows ORDER BY updated_at DESC, decoded
setEntries(t, at) ==
    {[i \in DOMAIN q |-> decode(q[i].value)] :
        q \in {o \in Orders({r \in t : liveRow(r, at)}) :
                 \A i, j \in DOMAIN o: i < j => o[i].updatedAt >= o[j].updatedAt}}

SetEntries ==
    /\ kind = "set"
    /\ \E e \in setEntries(tbl, nowUnixMilli):
           res' = Result("Set.Entries", "", <<>>, ZeroValue, TRUE, "nil", 0, e)
    /\ UNCHANGED <<kind, tbl, tblNextId, written, ldel>>
    /\ UNCHANGED baseVars

\* Set.Delete: DELETE FROM table WHERE key_hash = ?
SetDelete(v) ==
    /\ kind = "set"
    /\ IF encodeFails(v)
       THEN /\ res' = Result("Set.Delete", v, <<>>, ZeroValue, FALSE, "encode", 0, <<>>)
            /\ tbl' = tbl
       ELSE /\ res' = Result("Set.Delete", v, <<>>, ZeroValue, FALSE, "nil", 0, <<>>)
            /\ tbl' = tbl \ rowsOf(tbl, getHashedKey(encode(v)))
    /\ UNCHANGED <<kind, tblNextId, written, ldel>>
    /\ UNCHANGED baseVars

\* Set.Clear: DELETE FROM table
SetClear ==
    /\ kind = "set"
    /\ tbl' = {}
    /\ res' = Result("Set.Clear", "", <<>>, ZeroValue, FALSE, "nil", 0, <<>>)
    /\ UNCHANGED <<kind, tblNextId, written, ldel>>
    /\ UNCHANGED baseVars

(***************************************************************************)
(* List, Queue, Stack and PriorityQueue: the inserts and the reads of one  *)
(* element.  tblNextId is the AUTOINCREMENT id of the table; a run makes at *)
(* most MaxRows inserts.                                                    *)
(***************************************************************************)
NewList ==
    /\ kind = "none"
    /\ kind' = "list"
    /\ res' = Result("NewList", "", <<>>, ZeroValue, FALSE, "nil", 0, <<>>)
    /\ UNCHANGED <<tbl, tblNextId, written, ldel>>
    /\ UNCHANGED baseVars

\* SELECT COALESCE(MAX(position) + 1, 0)
nextPosition(t) ==
    IF t = {} THEN 0 ELSE (CHOOSE p \in {r.position : r \in t}: \A r \in t: r.position <= p) + 1

\* List.appendEx (Append with expiration 0, AppendEx)
ListAppend(v, expiration) ==
    /\ kind = "list"
    /\ tblNextId <= MaxAppends
    /\ LET r == Result("List.Append", "", [v |-> v, d |-> expiration], ZeroValue, FALSE, "nil", 0, <<>>)
       IN  IF encodeFails(v)
           THEN /\ res' = [r EXCEPT !.err = "encode"]
                /\ UNCHANGED <<tbl, tblNextId>>
           ELSE /\ tbl' = tbl \cup
                      {[position |-> nextPosition(tbl), value |-> encode(v),
                        expiresAt |-> getKeyExpirationAsMilli(expiration, nowUnixMilli),
                        createdAt |-> nowUnixMilli]}
                /\ tblNextId' = tblNextId + 1
                /\ res' = r
    /\ UNCHANGED <<kind, written, ldel>>
    /\ UNCHANGED baseVars

\* List.Get: the row at the position that passes the liveness filter
listGet(t, position, at) ==
    LET found == {r \in t : r.position = position /\ liveRow(r, at)}
    IN  IF found = {} THEN <<ZeroValue, FALSE, "nil">>
        ELSE <<decode((CHOOSE r \in found: TRUE).value), TRUE, "nil">>

ListGet(position) ==
    /\ kind = "list"
    /\ LET g == listGet(tbl, position, nowUnixMilli)
       IN  res' = Result("List.Get", "", [position |-> position], g[1], g[2], g[3], 0, <<>>)
    /\ UNCHANGED <<kind, tbl, tblNextId, written, ldel>>
    /\ UNCHANGED baseVars

\* the error of the UPDATE / DELETE by position that affected no row, as never given
positionNotFound_never(affected) == FALSE

\* affected == 0: fmt.Errorf("... position %d not found")
positionNotFound(affected) == affected = 0

\* UPDATE ... SET value, expires_at, created_at WHERE position = ?: no
\* liveness filter, the row of an expired position is written as well
listSet(t, position, ev, expiresAt, createdAt) ==
    {IF r.position = position
     THEN [r EXCEPT !.value = ev, !.expiresAt = expiresAt, !.createdAt = createdAt]
     ELSE r : r \in t}

\* List.setEx (Set with expiration 0, SetEx)
ListSet(position, v, expiration) ==
    /\ kind = "list"
    /\ LET r == Result("List.Set", "", [position |-> position, v |-> v, d |-> expiration],
                       ZeroValue, FALSE, "nil", 0, <<>>)
           affected == Cardinality({x \in tbl : x.position = position})
       IN  IF encodeFails(v)
           THEN /\ res' = [r EXCEPT !.err = "encode"]
                /\ UNCHANGED tbl
           ELSE /\ tbl' = listSet(tbl, position, encode(v),
                                  getKeyExpirationAsMilli(expiration, nowUnixMilli), nowUnixMilli)
                /\ res' = [r EXCEPT !.err = IF positionNotFound(affected)
                                             THEN "position not found" ELSE "nil", !.n = affected]
    /\ UNCHANGED <<kind, tblNextId, written, ldel>>
    /\ UNCHANGED baseVars

\* DELETE FROM ... WHERE position = ?: no liveness filter either
listDeleteRow(t, position) == {r \in t : r.position # position}

\* a Delete that leaves the positions of the other rows as they are
listReindex_keepPositions(t, at) == t

\* the second transaction of Delete: the live rows, numbered from 0 in the
\* order of their positions, replace the rows of the table (value, expires_at
\* and created_at are copied; the rows that are not live are not copied)
listReindex(t, at) ==
    LET live == {r \in t : liveRow(r, at)}
    IN  {[r EXCEPT !.position = Cardinality({x \in live : x.position < r.position})] : r \in live}

\* List.Delete run by one caller with no other call in between
ListDelete(position) ==
    /\ kind = "list"
    /\ LET r == Result("List.Delete", "", [position |-> position], ZeroValue, FALSE, "nil", 0, <<>>)
           affected == Cardinality({x \in tbl : x.position = position})
       IN  IF positionNotFound(affected)
           THEN /\ res' = [r EXCEPT !.err = "position not found"]
                /\ tbl' = listDeleteRow(tbl, position)
           ELSE /\ tbl' = listReindex(listDeleteRow(tbl, position), nowUnixMilli)
                /\ res' = [r EXCEPT !.n = affected]
    /\ UNCHANGED <<kind, tblNextId, written, ldel>>
    /\ UNCHANGED baseVars

\* List.Delete as the other callers see it, first step: the DELETE by position
\* is committed on its own (db.Exec), the re-index follows in a transaction
ListDeleteRow(position) ==
    /\ kind = "list"
    /\ ldel = NoDelete
    /\ ~positionNotFound(Cardinality({x \in tbl : x.position = position}))
    /\ tbl' = listDeleteRow(tbl, position)
    /\ ldel' = position
    /\ UNCHANGED <<kind, tblNextId, res, written>>
    /\ UNCHANGED baseVars

\* second step: the transaction that re-indexes; Delete returns nil
ListReindex ==
    /\ kind = "list"
    /\ ldel # NoDelete
    /\ tbl' = listReindex(tbl, nowUnixMilli)
    /\ res' = Result("List.Delete", "", [position |-> ldel], ZeroValue, FALSE, "nil", 1, <<>>)
    /\ ldel' = NoDelete
    /\ UNCHANGED <<kind, tblNextId, written>>
    /\ UNCHANGED baseVars

\* List.Entries: the decoded values of the live rows ORDER BY position ASC
\* (position is the primary key: no two rows share one)
listEntries(t, at) ==
    LET live == {r \in t : liveRow(r, at)}
        q == CHOOSE o \in Orders(live): \A i, j \in DOMAIN o: i < j => o[i].position < o[j].position
    IN  [i \in DOMAIN q |-> decode(q[i].value)]

ListEntries ==
    /\ kind = "list"
    /\ res' = Result("List.Entries", "", <<>>, ZeroValue, TRUE, "nil", 0, listEntries(tbl, nowUnixMilli))
    /\ UNCHANGED <<kind, tbl, tblNextId, written, ldel>>
    /\ UNCHANGED baseVars

\* List.Size: SELECT COUNT(*) ... WHERE expires_at = 0 OR expires_at > ?
listSize(t, at) == Cardinality({r \in t : liveRow(r, at)})

ListSize ==
    /\ kind = "list"
    /\ res' = Result("List.Size", "", <<>>, ZeroValue, TRUE, "nil", listSize(tbl, nowUnixMilli), <<>>)
    /\ UNCHANGED <<kind, tbl, tblNextId, written, ldel>>
    /\ UNCHANGED baseVars

\* the constructors of the queue, the stack and the priority queue
NewSeq(k) ==
    /\ kind = "none"
    /\ kind' = k
    /\ res' = Result("New", "", <<>>, ZeroValue, FALSE, "nil", 0, <<>>)
    /\ UNCHANGED <<tbl, tblNextId, written, ldel>>
    /\ UNCHANGED baseVars

\* Queue.enqueue, Stack.push: INSERT (value, expires_at, created_at); and
\* PriorityQueue.enqueueEx: INSERT (value, priority, expires_at, created_at).
\* The rows of a queue and of a stack carry the priority 0.
SeqInsert(k, name, v, priority, expiration) ==
    /\ kind = k
    /\ tblNextId <= MaxRows
    /\ LET r == Result(name, "", [v |-> v, d |-> expiration], ZeroValue, FALSE, "nil", 0, <<>>)
       IN  IF encodeFails(v)
           THEN /\ res' = [r EXCEPT !.err = "encode"]
                /\ UNCHANGED <<tbl, tblNextId>>
           ELSE /\ tbl' = tbl \cup
                      {[id |-> tblNextId, value |-> encode(v), priority |-> priority,
                        expiresAt |-> getKeyExpirationAsMilli(expiration, nowUnixMilli),
                        createdAt |-> nowUnixMilli]}
                /\ tblNextId' = tblNextId + 1
                /\ res' = r
    /\ UNCHANGED <<kind, written, ldel>>
    /\ UNCHANGED baseVars

QueueEnqueue(v, expiration) == SeqInsert("queue", "Queue.Enqueue", v, 0, expiration)
StackPush(v, expiration) == SeqInsert("stack", "Stack.Push", v, 0, expiration)
PQEnqueue(v, priority, expiration) == SeqInsert("pq", "PriorityQueue.Enqueue", v, priority, expiration)

\* the first row with no liveness filter in the WHERE clause
firstRow_noFilter(k, t, at) ==
    {r \in t : \A x \in t:
        CASE k = "queue" -> r.id <= x.id
          [] k = "stack" -> r.id >= x.id
          [] OTHER -> r.priority > x.priority \/ (r.priority = x.priority /\ r.id <= x.id)}

\* the first row by ORDER BY id ASC, whatever the collection
firstRow_idAsc(k, t, at) ==
    LET live == {r \in t : liveRow(r, at)}
    IN  {r \in live : \A x \in live: r.id <= x.id}

\* the row of SELECT ... WHERE expires_at = 0 OR expires_at > ? ORDER BY ... LIMIT 1:
\* ORDER BY id ASC (queue), id DESC (stack), priority DESC, id ASC (priority queue)
firstRow(k, t, at) ==
    LET live == {r \in t : liveRow(r, at)}
    IN  {r \in live : \A x \in live:
            CASE k = "queue" -> r.id <= x.id
              [] k = "stack" -> r.id >= x.id
              [] OTHER -> r.priority > x.priority \/ (r.priority = x.priority /\ r.id <= x.id)}

\* a Dequeue / Pop that returns the error of the empty SELECT
seqTake_noRowsError(k, t, at) ==
    LET first == firstRow(k, t, at)
    IN  IF first = {}
        THEN [value |-> ZeroValue, ok |-> FALSE, err |-> "sql: no rows in result set", tbl |-> t]
        ELSE LET r == CHOOSE x \in first: TRUE
             IN  [value |-> decode(r.value), ok |-> TRUE, err |-> "nil", tbl |-> t \ {r}]

\* Dequeue / Pop: in one transaction the first row is selected and deleted by
\* id; sql.ErrNoRows rolls the transaction back and is returned as not found
seqTake(k, t, at) ==
    LET first == firstRow(k, t, at)
    IN  IF first = {}
        THEN [value |-> ZeroValue, ok |-> FALSE, err |-> "nil", tbl |-> t]
        ELSE LET r == CHOOSE x \in first: TRUE
             IN  [value |-> decode(r.value), ok |-> TRUE, err |-> "nil", tbl |-> t \ {r}]

SeqTake(k, name) ==
    /\ kind = k
    /\ LET d == seqTake(k, tbl, nowUnixMilli)
       IN  /\ tbl' = d.tbl
           /\ res' = Result(name, "", <<>>, d.value, d.ok, d.err, 0, <<>>)
    /\ UNCHANGED <<kind, tblNextId, written, ldel>>
    /\ UNCHANGED baseVars

QueueDequeue == SeqTake("queue", "Queue.Dequeue")
StackPop == SeqTake("stack", "Stack.Pop")
PQDequeue == SeqTake("pq", "PriorityQueue.Dequeue")

\* Peek with no liveness filter in the WHERE clause
seqPeek_noFilter(k, t, at) ==
    LET first == firstRow_noFilter(k, t, at)
    IN  IF first = {} THEN <<ZeroValue, FALSE, "nil">>
        ELSE <<decode((CHOOSE x \in first: TRUE).value), TRUE, "nil">>

\* Peek: the first row, decoded; sql.ErrNoRows is returned as not found
seqPeek(k, t, at) ==
    LET first == firstRow(k, t, at)
    IN  IF first = {} THEN <<ZeroValue, FALSE, "nil">>
        ELSE <<decode((CHOOSE x \in first: TRUE).value), TRUE, "nil">>

SeqPeek(k, name) ==
    /\ kind = k
    /\ LET g == seqPeek(k, tbl, nowUnixMilli)
       IN  res' = Result(name, "", <<>>, g[1], g[2], g[3], 0, <<>>)
    /\ UNCHANGED <<kind, tbl, tblNextId, written, ldel>>
    /\ UNCHANGED baseVars

QueuePeek == SeqPeek("queue", "Queue.Peek")
StackPeek == SeqPeek("stack", "Stack.Peek")
PQPeek == SeqPeek("pq", "PriorityQueue.Peek")

\* Entries by ORDER BY id ASC, whatever the collection
seqEntries_idAsc(k, t, at) ==
    LET live == {r \in t : liveRow(r, at)}
        q == CHOOSE o \in Orders(live): \A i, j \in DOMAIN o: i < j => o[i].id < o[j].id
    IN  [i \in DOMAIN q |-> decode(q[i].value)]

\* the ORDER BY of Entries: id ASC (queue), id DESC (stack), priority DESC,
\* id ASC (priority queue); r comes before x
entriesOrder(k, r, x) ==
    CASE k = "queue" -> r.id < x.id
      [] k = "stack" -> r.id > x.id
      [] OTHER -> r.priority > x.priority \/ (r.priority = x.priority /\ r.id < x.id)

\* Entries: the decoded values of the live rows in that order
seqEntries(k, t, at) ==
    LET live == {r \in t : liveRow(r, at)}
        q == CHOOSE o \in Orders(live): \A i, j \in DOMAIN o: i < j => entriesOrder(k, o[i], o[j])
    IN  [i \in DOMAIN q |-> decode(q[i].value)]

SeqEntries(k, name) ==
    /\ kind = k
    /\ res' = Result(name, "", <<>>, ZeroValue, TRUE, "nil", 0, seqEntries(k, tbl, nowUnixMilli))
    /\ UNCHANGED <<kind, tbl, tblNextId, written, ldel>>
    /\ UNCHANGED baseVars

QueueEntries == SeqEntries("queue", "Queue.Entries")
StackEntries == SeqEntries("stack", "Stack.Entries")
PQEntries == SeqEntries("pq", "PriorityQueue.Entries")

\* Size: SELECT COUNT(*) ... WHERE expires_at = 0 OR expires_at > ?
seqSize(t, at) == Cardinality({r \in t : liveRow(r, at)})

SeqSize(k, name) ==
    /\ kind = k
    /\ res' = Result(name, "", <<>>, ZeroValue, TRUE, "nil", seqSize(tbl, nowUnixMilli), <<>>)
    /\ UNCHANGED <<kind, tbl, tblNextId, written, ldel>>
    /\ UNCHANGED baseVars

QueueSize == SeqSize("queue", "Queue.Size")
StackSize == SeqSize("stack", "Stack.Size")
PQSize == SeqSize("pq", "PriorityQueue.Size")

\* one DELETE of cleanupExpired on the table of the collection
CollSweep ==
    /\ kind # "none"
    /\ \E b \in batches(tbl, nowUnixMilli, BatchSize): tbl' = tbl \ b
    /\ UNCHANGED <<kind, tblNextId, res, written, ldel>>
    /\ UNCHANGED baseVars

\* the maps a call of MSet may be given
PairMaps == UNION {[S -> {"a", "b", NaN}] : S \in SUBSET MapKeys}

NextMap ==
    \/ NewMap
    \/ \E k \in MapKeys, v \in CollValues \cup {NaN}, e \in RowTTLs: MapSet(k, v, e)
    \/ \E k \in MapKeys: MapGet(k)
    \/ \E k \in MapKeys: MapHas(k)
    \/ \E keys \in SUBSET MapKeys: MapMGet(keys)
    \/ MapSize
    \/ MapEntries
    \/ \E k \in MapKeys: MapDelete(k)
    \/ MapClear
    \/ CollSweep
    \/ Tick

SpecMap == InitCleanupSpec /\ [][NextMap]_vars

NextSet ==
    \/ NewSet
    \/ \E v \in CollValues \cup {NaN}, e \in RowTTLs: SetAdd(v, e)
    \/ \E v \in CollValues \cup {NaN}: SetHas(v)
    \/ SetSize
    \/ SetEntries
    \/ \E v \in CollValues \cup {NaN}: SetDelete(v)
    \/ SetClear
    \/ CollSweep
    \/ Tick

SpecSet == InitCleanupSpec /\ [][NextSet]_vars

\* the reads of one element of each collection, with the writes that fill it
NextReads ==
    \/ NewMap
    \/ \E k \in MapKeys, v \in {"a", NaN}, e \in RowTTLs: MapSet(k, v, e)
    \/ \E k \in MapKeys: MapGet(k)
    \/ NewList
    \/ \E v \in SeqValues, e \in RowTTLs: ListAppend(v, e)
    \/ \E p \in 0..MaxRows: ListGet(p)
    \/ \E k \in {"queue", "stack", "pq"}: NewSeq(k)
    \/ \E v \in SeqValues, e \in RowTTLs: QueueEnqueue(v, e)
    \/ QueueDequeue
    \/ QueuePeek
    \/ \E v \in SeqValues, e \in RowTTLs: StackPush(v, e)
    \/ StackPop
    \/ StackPeek
    \/ \E v \in SeqValues, p \in Priorities, e \in RowTTLs: PQEnqueue(v, p, e)
    \/ PQDequeue
    \/ PQPeek
    \/ CollSweep
    \/ Tick

SpecReads == InitCleanupSpec /\ [][NextReads]_vars

\* the positions a call on the list may be given: one more than it can hold
Positions == 0..MaxAppends

\* the list with rows that never expire: Append, Set, Delete (as one call and
\* as the two steps the other callers see) and the reads
NextListPlain ==
    \/ NewList
    \/ \E v \in SeqValues: ListAppend(v, 0)
    \/ \E p \in Positions, v \in SeqValues: ListSet(p, v, 0)
    \/ \E p \in Positions: ListDelete(p)
    \/ \E p \in Positions: ListDeleteRow(p)
    \/ ListReindex
    \/ \E p \in Positions: ListGet(p)
    \/ ListEntries
    \/ ListSize
    \/ Tick

SpecListPlain == InitCleanupSpec /\ [][NextListPlain]_vars

\* the list with rows that may expire, and the sweep
NextList ==
    \/ NewList
    \/ \E v \in SeqValues, d \in RowTTLs: ListAppend(v, d)
    \/ \E p \in Positions, v \in SeqValues, d \in RowTTLs: ListSet(p, v, d)
    \/ \E p \in Positions: ListDelete(p)
    \/ \E p \in Positions: ListDeleteRow(p)
    \/ ListReindex
    \/ \E p \in Positions: ListGet(p)
    \/ ListEntries
    \/ ListSize
    \/ CollSweep
    \/ Tick

SpecList == InitCleanupSpec /\ [][NextList]_vars

\* the queue, the stack or the priority queue, whichever is constructed
NextSeq ==
    \/ \E k \in {"queue", "stack", "pq"}: NewSeq(k)
    \/ \E v \in SeqValues, d \in RowTTLs: QueueEnqueue(v, d)
    \/ QueueDequeue
    \/ QueuePeek
    \/ QueueEntries
    \/ QueueSize
    \/ \E v \in SeqValues, d \in RowTTLs: StackPush(v, d)
    \/ StackPop
    \/ StackPeek
    \/ StackEntries
    \/ StackSize
    \/ \E v \in SeqValues, p \in Priorities, d \in RowTTLs: PQEnqueue(v, p, d)
    \/ PQDequeue
    \/ PQPeek
    \/ PQEntries
    \/ PQSize
    \/ CollSweep
    \/ Tick

SpecSeq == InitCleanupSpec /\ [][NextSeq]_vars

\* a Map or a Set, whichever is constructed
NextKeyed ==
    \/ NewMap
    \/ \E k \in MapKeys, v \in CollValues \cup {NaN}, e \in RowTTLs: MapSet(k, v, e)
    \/ \E k \in MapKeys: MapGet(k)
    \/ \E k \in MapKeys: MapDelete(k)
    \/ NewSet
    \/ \E v \in CollValues \cup {NaN}, e \in RowTTLs: SetAdd(v, e)
    \/ \E v \in CollValues \cup {NaN}: SetHas(v)
    \/ \E v \in CollValues \cup {NaN}: SetDelete(v)
    \/ CollSweep
    \/ Tick

SpecKeyed == InitCleanupSpec /\ [][NextKeyed]_vars

\* the argument lists a call of MAdd may be given
ValueLists == UNION {[1..n -> {"a", "b", NaN}] : n \in 0..2}

\* the calls that write several rows in one transaction, with the reads
NextTx ==
    \/ NewMap
    \/ \E pairs \in PairMaps, e \in RowTTLs: MapMSet(pairs, e)
    \/ \E k \in MapKeys: MapGet(k)
    \/ MapSize
    \/ NewSet
    \/ \E values \in ValueLists, e \in RowTTLs: SetMAdd(values, e)
    \/ \E v \in {"a", "b"}: SetHas(v)
    \/ SetSize
    \/ Tick

SpecTx == InitCleanupSpec /\ [][NextTx]_vars

(***************************************************************************)
(* What the list holds, read from the links                                *)
(***************************************************************************)
\* the nodes met from n along the link f, at most fuel of them; a link to a node
\* that is not in the map ends the walk with that node
RECURSIVE Walk(_, _, _, _)
Walk(c, n, f, fuel) ==
    IF n = Nil \/ fuel = 0 THEN <<>>
    ELSE IF n \notin DOMAIN c.nodes THEN <<n>>
    ELSE <<n>> \o Walk(c, c.nodes[n][f], f, fuel - 1)

Forward(c) == Walk(c, c.head, "next", Cardinality(Keys) + 1)
Backward(c) == Walk(c, c.tail, "prev", Cardinality(Keys) + 1)
Reverse(s) == [i \in 1..Len(s) |-> s[Len(s) + 1 - i]]
Range(s) == {s[i] : i \in 1..Len(s)}

\* value and expiry of every node but k are what they were
OthersKept(k) ==
    \A j \in (DOMAIN lru.nodes) \ {k}:
        /\ j \in DOMAIN lru'.nodes
        /\ lru'.nodes[j].value = lru.nodes[j].value
        /\ lru'.nodes[j].expiresAt = lru.nodes[j].expiresAt

(***************************************************************************)
(* C1..C6: the LRUCache data structure                                     *)
(***************************************************************************)

\* C1: Size() is always between 0 and maxSize, and after maxSize+1 Set calls with
\* distinct keys on a new cache Size() = maxSize and the first key set is absent.
C1_CapacityBound ==
    /\ lru.size \in 0..lru.maxSize
    /\ (setRun # Broken /\ Len(setRun) = lru.maxSize + 1) =>
           /\ lru.size = lru.maxSize
           /\ setRun[1] \notin DOMAIN lru.nodes
           /\ \A i \in 2..Len(setRun): setRun[i] \in DOMAIN lru.nodes

C1_Witness ==
    /\ setRun # Broken
    /\ Len(setRun) = lru.maxSize + 1
    /\ lru.maxSize = MaxCap

\* a step that is the call `name`: every step but Tick is a call and records it
IsCall(name) == now' = now /\ lastOp'.op = name

\* C2: a Set/SetWithTTL of a new key into a full cache evicts exactly one entry,
\* the one least recently refreshed by a Set/SetWithTTL or a successful Get,
\* and never the key it inserts.
C2_EvictsLeastRecent ==
    [][IsCall("Set") =>
         LET k == lastOp'.key
             victim == recency[Len(recency)]
         IN  \A e \in TTLs:
               (SetWithTTL(k, lastOp'.value, e) /\ k \notin DOMAIN lru.nodes
                  /\ lru.size = lru.maxSize) =>
                   /\ DOMAIN lru'.nodes = ((DOMAIN lru.nodes) \ {victim}) \cup {k}
                   /\ victim # k
                   /\ lru'.size = lru.size
                   /\ OthersKept(victim)]_vars

\* an eviction whose victim was refreshed after a later-inserted key: not the
\* oldest insert, since a Get or a second Set has changed the order
C2_Witness ==
    /\ lastOp.op = "Set"
    /\ ~lastOp.ok
    /\ lastOp.removed # {}
    /\ setRun = Broken
    /\ lru.size = lru.maxSize
    /\ lru.maxSize > 1

\* C3: after every operation the keys of the map are the nodes met from head by
\* next, and from tail by prev in reverse; size is their number; head.prev and
\* tail.next are nil; head and tail are nil exactly when the cache is empty.
C3_Structure ==
    LET fw == Forward(lru)
        bw == Backward(lru)
    IN  /\ Range(fw) = DOMAIN lru.nodes
        /\ Len(fw) = Cardinality(DOMAIN lru.nodes)
        /\ bw = Reverse(fw)
        /\ lru.size = Len(fw)
        /\ (lru.head = Nil) <=> (lru.size = 0)
        /\ (lru.tail = Nil) <=> (lru.size = 0)
        /\ lru.head \in DOMAIN lru.nodes => lru.nodes[lru.head].prev = Nil
        /\ lru.tail \in DOMAIN lru.nodes => lru.nodes[lru.tail].next = Nil

\* a sweep pass that took a node out and left others in the list
C3_Witness ==
    /\ lastOp.op = "Sweep"
    /\ lastOp.removed # {}
    /\ lru.size >= 1

\* C4: Get(k) of a present, unexpired k returns (value, true) and makes k the
\* most recently used; of a present, expired k removes k and returns
\* (zero, false); of an absent k returns (zero, false) and changes nothing.
C4_Get ==
    [][IsCall("Get") =>
         LET k == lastOp'.key
         IN  Get(k) =>
               IF k \notin DOMAIN lru.nodes
               THEN /\ lru' = lru
                    /\ lastOp'.ok = FALSE /\ lastOp'.value = ZeroValue
               ELSE IF hasExpired(lru.nodes[k], now)
               THEN /\ DOMAIN lru'.nodes = (DOMAIN lru.nodes) \ {k}
                    /\ lru'.size = lru.size - 1
                    /\ Forward(lru') = Without(Forward(lru), k)
                    /\ OthersKept(k)
                    /\ lastOp'.ok = FALSE /\ lastOp'.value = ZeroValue
               ELSE /\ lastOp'.ok = TRUE /\ lastOp'.value = lru.nodes[k].value
                    /\ Forward(lru') = Touch(Forward(lru), k)
                    /\ lru'.head = k
                    /\ lru'.size = lru.size
                    /\ OthersKept(Nil)]_vars

\* a successful Get of a key that was not at the head
C4_Witness ==
    /\ lastOp.op = "Get"
    /\ lastOp.ok
    /\ lru.head = lastOp.key
    /\ lru.size >= 2
    /\ lastOp.value = "b"

\* C5: Peek and Has of a live key change nothing in the cache: order, values and
\* expiries are as before, so later evictions are the ones they would have been.
C5_PeekHasFrame ==
    [][(IsCall("Peek") \/ IsCall("Has")) =>
         LET k == lastOp'.key
         IN  ((Peek(k) \/ Has(k)) /\ Found(lru, k, now)) =>
               /\ lru' = lru
               /\ recency' = recency
               /\ lastOp'.ok = TRUE]_vars

\* a successful Peek of a key that is not at the head afterwards
C5_Witness ==
    /\ lastOp.op = "Peek"
    /\ lastOp.ok
    /\ lru.head # lastOp.key
    /\ lru.tail = lastOp.key

\* C6: Set/SetWithTTL of a key already in the cache replaces its value and
\* expiry, makes it the most recently used, keeps Size and evicts nothing,
\* also when the cache is full.
C6_SetExisting ==
    [][IsCall("Set") =>
         LET k == lastOp'.key
             v == lastOp'.value
         IN  \A e \in TTLs:
               (SetWithTTL(k, v, e) /\ k \in DOMAIN lru.nodes) =>
                   /\ DOMAIN lru'.nodes = DOMAIN lru.nodes
                   /\ lru'.nodes[k].value = v
                   /\ lru'.nodes[k].expiresAt = (IF e > 0 THEN now + e ELSE ZeroTime)
                   /\ Forward(lru') = Touch(Forward(lru), k)
                   /\ lru'.size = lru.size
                   /\ OthersKept(k)]_vars

\* a Set of a key already present in a full cache
C6_Witness ==
    /\ lastOp.op = "Set"
    /\ lastOp.ok
    /\ lru.size = lru.maxSize
    /\ lru.maxSize > 1
    /\ lru.nodes[lastOp.key].expiresAt = ZeroTime

(***************************************************************************)
(* C7..C9: StartCleanup / StopCleanup                                      *)
(***************************************************************************)
InStop(c) ==
    pc[c] \in {"stop_lock", "stop_check", "stop_nil", "stop_unlock", "stop_close", "stop_wait"}

\* the goroutines that have been started and have not terminated
Alive == {g \in Chans : gpc[g] \notin {"none", "exited"}}

\* C7: a StopCleanup that has been called eventually returns, in every
\* interleaving with the sweep goroutine.
C7_StopReturns ==
    \A c \in Callers: InStop(c) ~> (pc[c] \in {"stop_returned", "idle"})

\* C8: when a StopCleanup that stopped a sweep returns, the goroutine of the
\* matching StartCleanup has terminated, and any sweep goroutine still running
\* belongs to a later StartCleanup.
C8_StoppedSweepIsOver ==
    \A c \in Callers:
        pc[c] = "stop_returned" =>
            /\ gpc[local[c]] = "exited"
            /\ \A g \in Alive: g > local[c]

\* StopCleanup has returned, its goroutine is over, and a later StartCleanup has
\* a goroutine running
C8_Witness ==
    \E c \in Callers:
        /\ pc[c] = "stop_returned"
        /\ gpc[local[c]] = "exited"
        /\ \E g \in Alive: g > local[c]

\* C9: under any interleaving of StartCleanup and StopCleanup calls of several
\* callers at most one sweep goroutine is alive, a StartCleanup while a sweep is
\* started changes nothing, and a StopCleanup while none is started returns at once.
C9_Idempotent ==
    /\ [](Cardinality(Alive) <= 1)
    /\ [][\A c \in Callers:
            /\ (StartCheck(c) /\ cleanupDone # Nil) =>
                   pc'[c] = "idle" /\ UNCHANGED <<cleanupDone, cleanupWg, closed, made, gpc>>
            /\ (StopCheck(c) /\ cleanupDone = Nil) =>
                   pc'[c] = "idle" /\ UNCHANGED <<cleanupDone, cleanupWg, closed, made, gpc>>]_vars

(***************************************************************************)
(* C10: Storage.Close                                                      *)
(***************************************************************************)

\* C10: when Close has returned the goroutine of startCleanup has terminated,
\* and the database is closed only after it has: no DELETE of cleanupExpired is
\* issued against the closed database.
C10_CloseAfterSweep ==
    /\ cpc = "returned" => spc = "exited"
    /\ sDb = "closed" => spc = "exited"

\* Close has returned after a sweep that deleted the rows of a table
C10_Witness ==
    /\ cpc = "returned"
    /\ sDb = "closed"
    /\ spc = "exited"
    /\ \E t \in TableNames: nextId[t] > 1 /\ rows[t] = {}

(***************************************************************************)
(* C11, C12: Storage.Close against the goroutine New launched              *)
(***************************************************************************)

\* C11: the first Close after New, at whatever moment it is called, completes
\* without a fault: it never panics on close(s.cleanupDone) while the database
\* New opened is still open (a panic of a later Close is not counted here).
C11_CloseNeverFaults ==
    ~(cpc = "panicked" /\ sDb = "open")

\* C12: once Close has closed the stop channel the goroutine takes no tick from
\* its select: it starts no new sweep iteration.
C12_NoIterationAfterSignal ==
    [][sChanClosed => ~(spc = "wait" /\ spc' = "tables")]_vars

(***************************************************************************)
(* C13 - C17: Map                                                          *)
(***************************************************************************)
HashOf(k) == getHashedKey(encode(k))

\* the keys Get reports found
FoundKeys(t, at) == {k \in MapKeys : mapGet(t, k, at)[2]}

\* C13: every read of a Map applies one liveness predicate: at every instant and
\* for every key, Get reports found exactly when Has reports true, exactly when
\* MGet and Entries return the key, and Size is the number of such keys.
C13_OneLivenessPredicate ==
    kind = "map" =>
        /\ \A k \in MapKeys:
              LET found == mapGet(tbl, k, nowUnixMilli)[2]
              IN  /\ found = mapHas(tbl, k, nowUnixMilli)
                  /\ found = (\E p \in mapMGet(tbl, MapKeys, nowUnixMilli): p[1] = k)
                  /\ \A e \in mapEntries(tbl, nowUnixMilli):
                        found = (\E i \in DOMAIN e: e[i][1] = k)
        /\ mapSize(tbl, nowUnixMilli) = Cardinality(FoundKeys(tbl, nowUnixMilli))

\* C14: after a Set / SetEx of k with v that returned nil, and until k is
\* overwritten, deleted, cleared or expired, Get(k) returns (v, true, nil), v
\* being the value of the last such call, and the table holds one row for k.
C14_RoundTrip ==
    kind = "map" =>
        \A k \in MapKeys:
            (written[k] # NoWrite /\ (written[k].until = 0 \/ now < written[k].until)) =>
                /\ mapGet(tbl, k, nowUnixMilli) = <<written[k].v, TRUE, "nil">>
                /\ Cardinality(rowsOf(tbl, HashOf(k))) = 1

\* C16: Delete(k) returns nil and removes exactly key k: Has(k) is false
\* afterwards, the row of every other key is the one it was (value and expiry),
\* Size drops by one if k was live and by nothing otherwise, and a Delete of an
\* absent key changes nothing.
C16_DeleteFrame ==
    [][\A k \in MapKeys:
          MapDelete(k) =>
             /\ res'.err = "nil"
             /\ ~mapHas(tbl', k, nowUnixMilli)
             /\ \A j \in MapKeys \ {k}:
                   /\ rowsOf(tbl', HashOf(j)) = rowsOf(tbl, HashOf(j))
                   /\ mapGet(tbl', j, nowUnixMilli) = mapGet(tbl, j, nowUnixMilli)
             /\ mapSize(tbl', nowUnixMilli) =
                   mapSize(tbl, nowUnixMilli) - (IF mapHas(tbl, k, nowUnixMilli) THEN 1 ELSE 0)
             /\ rowsOf(tbl, HashOf(k)) = {} => tbl' = tbl]_vars

\* a Delete of a key that was live has returned, and another key is still there
C16_Witness ==
    /\ res.op = "Map.Delete"
    /\ res.had = 0 \/ res.had > now
    /\ rowsOf(tbl, HashOf(res.key)) = {}
    /\ \E r \in tbl: liveRow(r, now)

\* the values the codec gives back as they were
Faithful(v) == ~encodeFails(v) /\ decode(encode(v)) = v

\* C17: after SetEx(k, v, d) with d > 0 at time t, v a value the codec gives back
\* as it was, and until a new write of k: at every time before t + d Get(k)
\* returns (v, true, nil) and at every time after t + d it returns
\* (zero, false, nil), whether the sweep has deleted the row or not.
C17_TTLMonotone ==
    kind = "map" =>
        \A k \in MapKeys:
            (written[k].until > 0 /\ Faithful(written[k].v)) =>
                /\ now < written[k].until =>
                      mapGet(tbl, k, nowUnixMilli) = <<written[k].v, TRUE, "nil">>
                /\ now > written[k].until =>
                      mapGet(tbl, k, nowUnixMilli) = <<ZeroValue, FALSE, "nil">>

\* a Get after t + d has reported not found while the sweep has not deleted the row
C17_Witness ==
    /\ res.op = "Map.Get"
    /\ ~res.ok /\ res.err = "nil"
    /\ written[res.key].until > 0
    /\ Faithful(written[res.key].v)
    /\ now > written[res.key].until
    /\ rowsOf(tbl, HashOf(res.key)) # {}

C18_UpsertOverwritesExpiry ==
    [][/\ \A k \in MapKeys, v \in CollValues:
             MapSet(k, v, 0) =>
                /\ res'.err = "nil"
                /\ rowsOf(tbl', HashOf(k)) # {}
                /\ \A r \in rowsOf(tbl', HashOf(k)): r.expiresAt = 0
                /\ \A t \in Times:
                      /\ mapGet(tbl', k, t)[2]
                      /\ Faithful(v) => mapGet(tbl', k, t) = <<v, TRUE, "nil">>
       /\ \A x \in CollValues:
             SetAdd(x, 0) =>
                /\ res'.err = "nil"
                /\ rowsOf(tbl', HashOf(x)) # {}
                /\ \A r \in rowsOf(tbl', HashOf(x)): r.expiresAt = 0
                /\ \A t \in Times: setHas(tbl', x, t)]_vars

\* a Set has overwritten a row that an earlier SetEx had given an expiry
C18_Witness ==
    /\ res.op = "Map.Set" /\ res.arg.d = 0 /\ res.err = "nil"
    /\ res.had > 0
    /\ \A r \in rowsOf(tbl, HashOf(res.key)): r.expiresAt = 0

\* the step is a call of the named operation (where nothing but calls and the
\* clock take steps)
IsCollCall(name) == now' = now /\ res'.op = name

\* the row the call writes for a value, given its expiration
ExpiryAt(d) == IF d = 0 THEN 0 ELSE now + d

\* C19: MSet / MSetEx and MAdd / MAddEx are all-or-nothing: a call that returns
\* an error leaves the table as it was, whatever chunks its transaction had
\* executed; a call that returns nil leaves exactly one row for every pair
\* (value) of the call, with its value and expiry, and the other rows untouched.
C19_AllOrNothing ==
    [][/\ IsCollCall("Map.MSet") =>
             LET pairs == res'.arg.pairs
             IN  IF res'.err # "nil" THEN tbl' = tbl
                 ELSE /\ \A k \in DOMAIN pairs:
                            /\ Cardinality(rowsOf(tbl', HashOf(k))) = 1
                            /\ \A r \in rowsOf(tbl', HashOf(k)):
                                  /\ r.value = encode(pairs[k])
                                  /\ r.expiresAt = ExpiryAt(res'.arg.d)
                      /\ \A k \in MapKeys \ DOMAIN pairs:
                            rowsOf(tbl', HashOf(k)) = rowsOf(tbl, HashOf(k))
       /\ IsCollCall("Set.MAdd") =>
             LET values == res'.arg.values
                 hashes == {HashOf(values[i]) : i \in DOMAIN values}
             IN  IF res'.err # "nil" THEN tbl' = tbl
                 ELSE /\ \A h \in hashes:
                            /\ Cardinality(rowsOf(tbl', h)) = 1
                            /\ \A r \in rowsOf(tbl', h): r.expiresAt = ExpiryAt(res'.arg.d)
                      /\ {r \in tbl' : r.keyHash \notin hashes} =
                         {r \in tbl : r.keyHash \notin hashes}]_vars

\* an MSet has returned an error after a chunk of its transaction was executed
C19_Witness ==
    /\ res.op = "Map.MSet"
    /\ res.err # "nil"
    /\ res.n > 0
    /\ tbl = {}

\* the members of a Set
setMembers(t, at) == {decode(r.value) : r \in {x \in t : liveRow(x, at)}}

\* C20: an Add of a value that is a member returns no error and leaves Size and
\* the members as they were.
C20_AddIdempotent ==
    [][\A x \in CollValues:
          (SetAdd(x, 0) /\ setHas(tbl, x, nowUnixMilli)) =>
             /\ res'.err = "nil"
             /\ setSize(tbl', nowUnixMilli) = setSize(tbl, nowUnixMilli)
             /\ setMembers(tbl', nowUnixMilli) = setMembers(tbl, nowUnixMilli)]_vars

\* an Add of a live member has returned, in a set of two members
C20_Witness ==
    /\ res.op = "Set.Add" /\ res.arg.d = 0 /\ res.err = "nil"
    /\ res.had = 0 \/ res.had > now
    /\ setSize(tbl, nowUnixMilli) = 2

(***************************************************************************)
(* Map.Entries                                                             *)
(***************************************************************************)
\* the keys a sequence of Entries yields, in order
keysOf(e) == [i \in DOMAIN e |-> e[i][1]]

\* C21: Map.Entries yields every live row exactly once and no expired row,
\* most recently updated first: right after a Set/SetEx of k has returned nil
\* the last write to k is later than the last write to every other key, so
\* an Entries at that instant yields the live keys once each and k first.
C21_EntriesMostRecentFirst ==
    [][\A k \in MapKeys:
          (\E v \in CollValues, d \in RowTTLs: MapSet(k, v, d))
          => \A e \in mapEntries(tbl', nowUnixMilli'):
                /\ Range(keysOf(e)) = {decode(r.key) : r \in {x \in tbl' : liveRow(x, nowUnixMilli')}}
                /\ \A i, j \in DOMAIN e: i # j => e[i][1] # e[j][1]
                /\ e # <<>> /\ e[1][1] = k]_vars

(***************************************************************************)
(* List                                                                    *)
(***************************************************************************)
\* the positions of the live rows
livePositions(t, at) == {r.position : r \in {x \in t : liveRow(x, at)}}

\* the live rows hold the positions 0..n-1, one row each
Contiguous(t, at) ==
    /\ livePositions(t, at) = 0..(listSize(t, at) - 1)
    /\ Cardinality(livePositions(t, at)) = listSize(t, at)

C23_ContiguousAlways ==
    kind = "list" => Contiguous(tbl, nowUnixMilli)

\* the rows the table holds at a position, live or not
rowsAt(t, position) == {r \in t : r.position = position}

\* C24: Set/SetEx and Delete on a position that holds no row return an error
\* and leave every row as it was.  The error is the position-not-found one;
\* setEx encodes first, so with a value that cannot be encoded it is the
\* encode error.
C24_PositionNotFound ==
    [][/\ (/\ res'.op = "List.Set"
           /\ ListSet(res'.arg.position, res'.arg.v, res'.arg.d)
           /\ rowsAt(tbl, res'.arg.position) = {})
          => /\ res'.err # "nil"
             /\ ~encodeFails(res'.arg.v) => res'.err = "position not found"
             /\ tbl' = tbl
       /\ (/\ res'.op = "List.Delete"
           /\ ListDelete(res'.arg.position)
           /\ rowsAt(tbl, res'.arg.position) = {})
          => /\ res'.err = "position not found"
             /\ tbl' = tbl]_vars

\* a Set on position 2 of a list of two rows has returned position not found
C24_Witness ==
    /\ kind = "list"
    /\ res.op = "List.Set" /\ res.arg.position = 2 /\ res.err = "position not found"
    /\ Cardinality(tbl) = 2

\* the sequence q without its i-th element (q itself when it has none)
RemoveAt(q, i) ==
    IF i \notin DOMAIN q THEN q
    ELSE [j \in 1..(Len(q) - 1) |-> IF j < i THEN q[j] ELSE q[j + 1]]

\* the expires_at of the live rows, in position order
listExpiries(t, at) ==
    LET live == {r \in t : liveRow(r, at)}
        q == CHOOSE o \in Orders(live): \A i, j \in DOMAIN o: i < j => o[i].position < o[j].position
    IN  [i \in DOMAIN q |-> q[i].expiresAt]

\* C25: Delete(p) on a position that holds a row removes that element and
\* shifts the rest down: Entries yields the sequence it yielded before
\* without its p-th element (counted from 0), each remaining element with
\* the expiry it had, and Get(i) for i >= p returns what Get(i + 1) returned
\* (for a Delete that runs while no other Delete is in flight).
C25_DeleteShiftsDown ==
    [][(/\ ldel = NoDelete
        /\ res'.op = "List.Delete"
        /\ ListDelete(res'.arg.position)
        /\ rowsAt(tbl, res'.arg.position) # {})
       => LET p == res'.arg.position
          IN  /\ res'.err = "nil"
              /\ listEntries(tbl', nowUnixMilli) = RemoveAt(listEntries(tbl, nowUnixMilli), p + 1)
              /\ listExpiries(tbl', nowUnixMilli) = RemoveAt(listExpiries(tbl, nowUnixMilli), p + 1)
              /\ \A i \in Positions:
                    i >= p => listGet(tbl', i, nowUnixMilli) = listGet(tbl, i + 1, nowUnixMilli)]_vars

(***************************************************************************)
(* Queue, Stack and PriorityQueue                                          *)
(***************************************************************************)
\* the live rows; the id of a row is its rank among the enqueues / pushes
\* (AUTOINCREMENT: every insert gets an id above all ids given before)
liveRows(t, at) == {r \in t : liveRow(r, at)}

\* C26: every successful Dequeue of the queue removes and returns a live
\* element, the one enqueued before every other live element still stored;
\* expired elements the sweep has not removed are passed over.
C26_QueueFIFO ==
    [][(res'.op = "Queue.Dequeue" /\ QueueDequeue /\ res'.ok)
       => \E r \in liveRows(tbl, nowUnixMilli):
             /\ tbl' = tbl \ {r}
             /\ res'.value = decode(r.value)
             /\ \A x \in liveRows(tbl, nowUnixMilli): r.id <= x.id]_vars

\* a Dequeue has returned an element while an expired one, enqueued before
\* it, is still in the table
C26_Witness ==
    /\ kind = "queue"
    /\ res.op = "Queue.Dequeue" /\ res.ok
    /\ tblNextId > 2
    /\ \E x \in tbl: x.id = 1 /\ ~liveRow(x, nowUnixMilli)

\* C27: every successful Pop of the stack removes and returns a live
\* element, the one pushed after every other live element still stored;
\* expired elements the sweep has not removed are passed over.
C27_StackLIFO ==
    [][(res'.op = "Stack.Pop" /\ StackPop /\ res'.ok)
       => \E r \in liveRows(tbl, nowUnixMilli):
             /\ tbl' = tbl \ {r}
             /\ res'.value = decode(r.value)
             /\ \A x \in liveRows(tbl, nowUnixMilli): r.id >= x.id]_vars

\* a Pop has returned the first element pushed while the second, expired, is
\* still in the table
C27_Witness ==
    /\ kind = "stack"
    /\ res.op = "Stack.Pop" /\ res.ok
    /\ \E x \in tbl: x.id = 2 /\ ~liveRow(x, nowUnixMilli)
    /\ \A x \in tbl: x.id # 1

\* C28: every successful Dequeue of the priority queue removes and returns a
\* live element of the highest priority among the live elements stored, and
\* among those of that priority the one enqueued first.
C28_PriorityThenFIFO ==
    [][(res'.op = "PriorityQueue.Dequeue" /\ PQDequeue /\ res'.ok)
       => \E r \in liveRows(tbl, nowUnixMilli):
             /\ tbl' = tbl \ {r}
             /\ res'.value = decode(r.value)
             /\ \A x \in liveRows(tbl, nowUnixMilli):
                   /\ r.priority >= x.priority
                   /\ r.priority = x.priority => r.id <= x.id]_vars

\* a Dequeue has returned the second element enqueued, of the higher
\* priority, and left the first
C28_Witness ==
    /\ kind = "pq"
    /\ res.op = "PriorityQueue.Dequeue" /\ res.ok
    /\ tblNextId > 2
    /\ \E x \in tbl: x.id = 1 /\ x.priority = 1 /\ liveRow(x, nowUnixMilli)

\* C29: Peek on the queue, the stack and the priority queue returns what a
\* Dequeue / Pop at the same instant returns, and removes nothing: the rows,
\* Size and Entries are what they were.
C29_PeekIsNextTake ==
    [][(/\ res'.op \in {"Queue.Peek", "Stack.Peek", "PriorityQueue.Peek"}
        /\ (QueuePeek \/ StackPeek \/ PQPeek))
       => LET next == seqTake(kind, tbl', nowUnixMilli)
          IN  /\ res'.ok = next.ok
              /\ res'.value = next.value
              /\ res'.err = "nil"
              /\ tbl' = tbl
              /\ seqSize(tbl', nowUnixMilli) = seqSize(tbl, nowUnixMilli)
              /\ seqEntries(kind, tbl', nowUnixMilli) = seqEntries(kind, tbl, nowUnixMilli)]_vars

\* a Peek of the stack has returned the first element pushed while the
\* second, expired, is still in the table
C29_Witness ==
    /\ kind = "stack"
    /\ res.op = "Stack.Peek" /\ res.ok
    /\ \E x \in tbl: x.id = 1 /\ liveRow(x, nowUnixMilli)
    /\ \E x \in tbl: x.id = 2 /\ ~liveRow(x, nowUnixMilli)

\* what Dequeue / Pop calls repeated at one instant return, until not found
RECURSIVE Drain(_, _, _)
Drain(k, t, at) ==
    LET d == seqTake(k, t, at)
    IN  IF d.ok THEN <<d.value>> \o Drain(k, d.tbl, at) ELSE <<>>

\* C30: Entries on the queue, the stack and the priority queue yields the
\* live elements in the order repeated Dequeue / Pop calls would return
\* them, and consumes nothing: the rows and Size are what they were.
C30_EntriesInTakeOrder ==
    [][(/\ res'.op \in {"Queue.Entries", "Stack.Entries", "PriorityQueue.Entries"}
        /\ (QueueEntries \/ StackEntries \/ PQEntries))
       => /\ res'.out = Drain(kind, tbl, nowUnixMilli)
          /\ Len(res'.out) = seqSize(tbl, nowUnixMilli)
          /\ tbl' = tbl
          /\ seqSize(tbl', nowUnixMilli) = seqSize(tbl, nowUnixMilli)]_vars

\* Entries of a priority queue has yielded two elements, the one enqueued
\* second, of the higher priority, first
C30_Witness ==
    /\ kind = "pq"
    /\ res.op = "PriorityQueue.Entries" /\ Len(res.out) = 2
    /\ \E x, y \in tbl: /\ x.id = 1 /\ x.priority = 1 /\ y.id = 2 /\ y.priority = 2
                        /\ res.out = <<decode(y.value), decode(x.value)>>
                        /\ x.value # y.value

(***************************************************************************)
(* The table names (helpers.go, and the constructors).  A name is the      *)
(* sequence of its runes; every constructor derives its table's name from  *)
(* its kind's prefix and the caller's name.                                *)
(***************************************************************************)
MaxColls == 2

\* the callers' names: ones that differ by case, by a rune outside [a-z0-9],
\* and one that starts as the prefix of another kind does
UserNames ==
    { <<"x">>, <<"X">>, <<"x", "-", "y">>, <<"x", "_", "y">>, <<"x", "y">>,
      <<"c", "a", "c", "h", "e", "_", "x">> }

\* strings.ToLower, on the runes of UserNames and of the prefixes
toLower(r) == IF r = "X" THEN "x" ELSE r

\* (r >= 'a' && r <= 'z') || (r >= '0' && r <= '9')
isLowerAlnum(r) ==
    r \in { "a", "b", "c", "d", "e", "f", "g", "h", "i", "j", "k", "l", "m",
            "n", "o", "p", "q", "r", "s", "t", "u", "v", "w", "x", "y", "z",
            "0", "1", "2", "3", "4", "5", "6", "7", "8", "9" }

\* the loop over the runes of one lower-cased name
normalizeName(name) ==
    [i \in 1..Len(name) |->
        LET r == toLower(name[i]) IN IF isLowerAlnum(r) THEN r ELSE "_"]

\* getNormalizedTableName: the normalised names, "_" before each but the first
RECURSIVE getNormalizedTableName(_)
getNormalizedTableName(names) ==
    IF names = <<>> THEN <<>>
    ELSE IF Len(names) = 1 THEN normalizeName(names[1])
    ELSE normalizeName(names[1]) \o <<"_">> \o getNormalizedTableName(Tail(names))

CollKinds == {"map", "cache", "set", "list", "queue", "stack", "pqueue"}

\* the table of the collection a constructor returns: NewCache normalises
\* ("cache", name) and passes the result to NewMap as its name
tableName(k, name) ==
    IF k = "cache"
    THEN getNormalizedTableName(<<
            <<"m", "a", "p">>,
            getNormalizedTableName(<< <<"c", "a", "c", "h", "e">>, name >>) >>)
    ELSE getNormalizedTableName(<<
            CASE k = "map" -> <<"m", "a", "p">>
              [] k = "set" -> <<"s", "e", "t">>
              [] k = "list" -> <<"l", "i", "s", "t">>
              [] k = "queue" -> <<"q", "u", "e", "u", "e">>
              [] k = "stack" -> <<"s", "t", "a", "c", "k">>
              [] k = "pqueue" -> <<"p", "q", "u", "e", "u", "e">>,
            name >>)

\* NewMap, NewCache, NewSet, NewList, NewQueue, NewStack, NewPriorityQueue:
\* the collection of kind k named name is constructed on the storage
NewCollection(k, name) ==
    /\ Cardinality(colls) < MaxColls
    /\ colls' = colls \cup {[kind |-> k, name |-> name, table |-> tableName(k, name)]}
    /\ UNCHANGED <<calls, handle>>
    /\ UNCHANGED <<kind, tbl, tblNextId, res, written, ldel>>
    /\ UNCHANGED coreVars

NextNames == \E k \in CollKinds, name \in UserNames: NewCollection(k, name)

SpecNames == InitCleanupSpec /\ [][NextNames]_vars

\* C33: two collections that differ in kind or in the caller's name have
\* different tables, so neither reads or writes the other's rows.
C33_TableNamesUnique ==
    \A c1, c2 \in colls:
        (c1.kind # c2.kind \/ c1.name # c2.name) => c1.table # c2.table

(***************************************************************************)
(* The sweep of one table (storage.go, cleanupExpired), on the storage      *)
(* model above.                                                             *)
(***************************************************************************)

\* C34: every DELETE of the sweep removes only rows with expires_at != 0 and
\* expires_at <= now, of the table it is sweeping; a batch after which the loop
\* goes on has removed batchSize rows, so the loop ends when no row is inserted;
\* and the batch that ends the loop leaves no such row in the table.
C34_SweepDeletesExpired ==
    [][(sDb = "open" /\ SExec)
       => LET t == sTableNames[sIdx]
              gone == rows[t] \ rows'[t]
          IN  /\ rows'[t] \subseteq rows[t]
              /\ \A r \in gone: r.expiresAt # 0 /\ r.expiresAt <= now
              /\ \A u \in DOMAIN rows: u # t => rows'[u] = rows[u]
              /\ spc' = "exec" => Cardinality(gone) = BatchSize
              /\ spc' # "exec" =>
                    /\ Cardinality(gone) < BatchSize
                    /\ \A r \in rows'[t]: r.expiresAt = 0 \/ r.expiresAt > now]_vars

\* the loop is at its next DELETE after one that removed a full batch: a row
\* is gone, and one more than the batch held is still there, expired
C34_Witness ==
    /\ spc = "exec" /\ sDb = "open"
    /\ \E t \in DOMAIN rows:
          /\ sIdx <= Len(sTableNames) /\ sTableNames[sIdx] = t
          /\ Cardinality(rows[t]) < nextId[t] - 1
          /\ \E r \in rows[t]: r.expiresAt # 0 /\ r.expiresAt <= now

(***************************************************************************)
(* Cache (cache.go): a Map and an expiration.  NewCache constructs the Map   *)
(* on the table of its normalised name; every call delegates to the Map.    *)
(***************************************************************************)
CacheExpirations == {0, 1}

NewCache(expiration) ==
    /\ kind = "none"
    /\ kind' = "cache"
    /\ handle' = NewHandle(expiration)
    /\ res' = Result("NewCache", "", [d |-> expiration], ZeroValue, FALSE, "nil", 0, <<>>)
    /\ UNCHANGED <<tbl, tblNextId, written, ldel, colls, calls>>
    /\ UNCHANGED coreVars

\* Map.set as a function of the table: the error, and the table after it
mapSet(t, k, v, expiration, at) ==
    IF encodeFails(v) THEN [err |-> "encode", db |-> t]
    ELSE [err |-> "nil",
          db |-> mapUpsert(t, k, v, getKeyExpirationAsMilli(expiration, at), at)]

\* Map.mset as a function of the table, the pairs ranged in the given order and
\* the Exec of chunk number failAt failing (0: none)
mapMSet(t, pairs, order, failAt, expiration, at) ==
    IF DOMAIN pairs = {} THEN [err |-> "nil", db |-> t]
    ELSE execTransaction(t,
            msetLoop(t, [i \in DOMAIN order |-> <<order[i], pairs[order[i]]>>], 1, <<>>, 0,
                     failAt, getKeyExpirationAsMilli(expiration, at), at))

\* Cache.Set: m.Set when the expiration is 0, m.SetEx(key, value, c.expiration)
\* otherwise
CacheSet(k, v) ==
    /\ kind = "cache"
    /\ LET s == IF handle.expiration = 0
                THEN mapSet(tbl, k, v, 0, nowUnixMilli)
                ELSE mapSet(tbl, k, v, handle.expiration, nowUnixMilli)
       IN  /\ tbl' = s.db
           /\ res' = Result("Cache.Set", k, [v |-> v], ZeroValue, FALSE, s.err, 0, <<>>)
    /\ UNCHANGED <<kind, tblNextId, written, ldel>>
    /\ UNCHANGED baseVars

\* Cache.MSet: m.MSet when the expiration is 0, m.MSetEx otherwise
CacheMSet(pairs) ==
    /\ kind = "cache"
    /\ \E order \in Orders(DOMAIN pairs), failAt \in 0..Cardinality(DOMAIN pairs):
          LET s == IF handle.expiration = 0
                   THEN mapMSet(tbl, pairs, order, failAt, 0, nowUnixMilli)
                   ELSE mapMSet(tbl, pairs, order, failAt, handle.expiration, nowUnixMilli)
          IN  /\ tbl' = s.db
              /\ res' = Result("Cache.MSet", "", [pairs |-> pairs], ZeroValue, FALSE, s.err,
                               0, <<>>)
    /\ UNCHANGED <<kind, tblNextId, written, ldel>>
    /\ UNCHANGED baseVars

\* Cache.Get, Cache.MGet, Cache.Has, Cache.Size: the Map's
CacheGet(k) ==
    /\ kind = "cache"
    /\ LET g == mapGet(tbl, k, nowUnixMilli)
       IN  res' = Result("Cache.Get", k, <<>>, g[1], g[2], g[3], 0, <<>>)
    /\ UNCHANGED <<kind, tbl, tblNextId, written, ldel>>
    /\ UNCHANGED baseVars

CacheMGet(keys) ==
    /\ kind = "cache"
    /\ res' = Result("Cache.MGet", "", keys, ZeroValue, TRUE, "nil", 0,
                     mapMGet(tbl, keys, nowUnixMilli))
    /\ UNCHANGED <<kind, tbl, tblNextId, written, ldel>>
    /\ UNCHANGED baseVars

CacheHas(k) ==
    /\ kind = "cache"
    /\ res' = Result("Cache.Has", k, <<>>, ZeroValue, mapHas(tbl, k, nowUnixMilli),
                     "nil", 0, <<>>)
    /\ UNCHANGED <<kind, tbl, tblNextId, written, ldel>>
    /\ UNCHANGED baseVars

CacheSize ==
    /\ kind = "cache"
    /\ res' = Result("Cache.Size", "", <<>>, ZeroValue, TRUE, "nil",
                     mapSize(tbl, nowUnixMilli), <<>>)
    /\ UNCHANGED <<kind, tbl, tblNextId, written, ldel>>
    /\ UNCHANGED baseVars

\* Cache.Delete, Cache.Clear: the Map's
CacheDelete(k) ==
    /\ kind = "cache"
    /\ tbl' = mapDelete(tbl, k)
    /\ res' = Result("Cache.Delete", k, <<>>, ZeroValue, FALSE, "nil", 0, <<>>)
    /\ UNCHANGED <<kind, tblNextId, written, ldel>>
    /\ UNCHANGED baseVars

CacheClear ==
    /\ kind = "cache"
    /\ tbl' = {}
    /\ res' = Result("Cache.Clear", "", <<>>, ZeroValue, FALSE, "nil", 0, <<>>)
    /\ UNCHANGED <<kind, tblNextId, written, ldel>>
    /\ UNCHANGED baseVars

\* a GetEx that rewrites the row whenever it found the key
getExRefreshes_always(expiration, ok) == ok

\* a GetEx that never rewrites the row
getExRefreshes_never(expiration, ok) == FALSE

\* Cache.GetEx, line 80: if c.expiration == 0 || !ok { return value, ok, nil }
getExRefreshes(expiration, ok) == ~(expiration = 0 \/ ~ok)

\* Cache.GetEx: m.Get, then m.SetEx(key, value, c.expiration) of the value read
CacheGetEx(k) ==
    /\ kind = "cache"
    /\ LET g == mapGet(tbl, k, nowUnixMilli)
           r == Result("Cache.GetEx", k, <<>>, g[1], g[2], g[3], 0, <<>>)
       IN  IF ~getExRefreshes(handle.expiration, g[2])
           THEN /\ res' = r
                /\ tbl' = tbl
           ELSE LET s == mapSet(tbl, k, g[1], handle.expiration, nowUnixMilli)
                IN  /\ tbl' = s.db
                    /\ res' = [r EXCEPT !.err = s.err]
    /\ UNCHANGED <<kind, tblNextId, written, ldel>>
    /\ UNCHANGED baseVars

\* the Go map of the pairs MGet returned
pairsOf(S) == [k \in {q[1] : q \in S} |-> (CHOOSE q \in S: q[1] = k)[2]]

\* Cache.MGetEx: m.MGet, then, line 96: if c.expiration > 0 && len(values) > 0,
\* m.MSetEx(values, c.expiration)
CacheMGetEx(keys) ==
    /\ kind = "cache"
    /\ LET values == mapMGet(tbl, keys, nowUnixMilli)
           r == Result("Cache.MGetEx", "", keys, ZeroValue, TRUE, "nil", 0, values)
       IN  IF handle.expiration > 0 /\ values # {}
           THEN \E order \in Orders(DOMAIN pairsOf(values)),
                   failAt \in 0..Cardinality(values):
                   LET s == mapMSet(tbl, pairsOf(values), order, failAt,
                                    handle.expiration, nowUnixMilli)
                   IN  /\ tbl' = s.db
                       /\ res' = [r EXCEPT !.err = s.err]
           ELSE /\ res' = r
                /\ tbl' = tbl
    /\ UNCHANGED <<kind, tblNextId, written, ldel>>
    /\ UNCHANGED baseVars

\* the maps a call of Cache.MSet may be given
CachePairMaps == UNION {[S -> {"a", "b"}] : S \in SUBSET MapKeys}

NextCache ==
    \/ \E d \in CacheExpirations: NewCache(d)
    \/ \E k \in MapKeys, v \in {"a", "b", NaN}: CacheSet(k, v)
    \/ \E pairs \in CachePairMaps: CacheMSet(pairs)
    \/ \E k \in MapKeys: CacheGet(k)
    \/ \E keys \in SUBSET MapKeys: CacheMGet(keys)
    \/ \E k \in MapKeys: CacheGetEx(k)
    \/ \E keys \in SUBSET MapKeys: CacheMGetEx(keys)
    \/ \E k \in MapKeys: CacheHas(k)
    \/ CacheSize
    \/ \E k \in MapKeys: CacheDelete(k)
    \/ CacheClear
    \/ CollSweep
    \/ Tick

SpecCache == InitCleanupSpec /\ [][NextCache]_vars

\* C31: a Cache constructed with expiration 0 is a Map.  Every row it holds
\* never expires; its Set and MSet leave the table and return the error that
\* Map.Set and Map.MSet would; its GetEx and MGetEx return what Map.Get and
\* Map.MGet would and write nothing.
C31_CacheZeroIsMap ==
    [][(kind = "cache" /\ handle.expiration = 0)
       => /\ \A r \in tbl': r.expiresAt = 0
          /\ (res'.op = "Cache.Set" /\ CacheSet(res'.key, res'.arg.v))
             => LET m == mapSet(tbl, res'.key, res'.arg.v, 0, nowUnixMilli)
                IN  tbl' = m.db /\ res'.err = m.err
          /\ (res'.op = "Cache.MSet" /\ CacheMSet(res'.arg.pairs))
             => \E order \in Orders(DOMAIN res'.arg.pairs),
                   failAt \in 0..Cardinality(DOMAIN res'.arg.pairs):
                   LET m == mapMSet(tbl, res'.arg.pairs, order, failAt, 0, nowUnixMilli)
                   IN  tbl' = m.db /\ res'.err = m.err
          /\ (res'.op = "Cache.GetEx" /\ CacheGetEx(res'.key))
             => /\ tbl' = tbl
                /\ <<res'.value, res'.ok, res'.err>> = mapGet(tbl, res'.key, nowUnixMilli)
          /\ (res'.op = "Cache.MGetEx" /\ CacheMGetEx(res'.arg))
             => /\ tbl' = tbl
                /\ res'.err = "nil"
                /\ res'.out = mapMGet(tbl, res'.arg, nowUnixMilli)]_vars

\* GetEx on a cache of expiration 0 has found a key whose row was written at
\* an earlier instant and is as it was written
C31_Witness ==
    /\ kind = "cache" /\ handle.expiration = 0
    /\ res.op = "Cache.GetEx" /\ res.ok
    /\ \E r \in rowsOf(tbl, getHashedKey(encode(res.key))):
          r.updatedAt < nowUnixMilli /\ r.expiresAt = 0 /\ decode(r.value) = res.value

\* the row of key k
rowOfKey(t, k) == rowsOf(t, getHashedKey(encode(k)))

\* C32: on a Cache of expiration d > 0, a GetEx that finds its key at the
\* instant t returns the value and leaves the key's row with that value and
\* expires_at = t + d, so the key is readable at every instant before t + d,
\* and the other rows as they were; a GetEx that does not find its key writes
\* nothing; an MGetEx does to every key it returns what GetEx does to one.
C32_SlidingTTL ==
    [][(kind = "cache" /\ handle.expiration > 0)
       => /\ (res'.op = "Cache.GetEx" /\ CacheGetEx(res'.key))
             => IF res'.ok
                THEN /\ res'.err = "nil"
                     /\ \E r \in rowOfKey(tbl, res'.key): res'.value = decode(r.value)
                     /\ \A r \in rowOfKey(tbl', res'.key):
                           /\ r.expiresAt = nowUnixMilli + handle.expiration
                           /\ decode(r.value) = res'.value
                     /\ \A t \in nowUnixMilli..(nowUnixMilli + handle.expiration - 1):
                           /\ mapHas(tbl', res'.key, t)
                           /\ mapGet(tbl', res'.key, t) = <<res'.value, TRUE, "nil">>
                     /\ tbl' \ rowOfKey(tbl', res'.key) = tbl \ rowOfKey(tbl, res'.key)
                ELSE tbl' = tbl
          /\ (res'.op = "Cache.MGetEx" /\ CacheMGetEx(res'.arg) /\ res'.err = "nil")
             => /\ res'.out = mapMGet(tbl, res'.arg, nowUnixMilli)
                /\ \A q \in res'.out:
                      /\ \A r \in rowOfKey(tbl', q[1]):
                            /\ r.expiresAt = nowUnixMilli + handle.expiration
                            /\ decode(r.value) = q[2]
                      /\ \A t \in nowUnixMilli..(nowUnixMilli + handle.expiration - 1):
                            mapHas(tbl', q[1], t)
                /\ {r \in tbl' : \A q \in res'.out: r \notin rowOfKey(tbl', q[1])}
                     = {r \in tbl : \A q \in res'.out: r \notin rowOfKey(tbl, q[1])}]_vars

\* a GetEx, after the instant its key was set at, has found the key and left
\* its row expiring one expiration after the read
C32_Witness ==
    /\ kind = "cache" /\ handle.expiration > 0
    /\ res.op = "Cache.GetEx" /\ res.ok /\ nowUnixMilli > 0
    /\ \E r \in rowOfKey(tbl, res.key):
          /\ r.updatedAt = nowUnixMilli
          /\ r.expiresAt = nowUnixMilli + handle.expiration

(***************************************************************************)
(* Cache.GetEx among concurrent callers: its m.Get and its m.SetEx are two  *)
(* statements, and the calls of the other callers come in between.          *)
(***************************************************************************)

\* Cache.GetEx, lines 76-82: caller c reads the key; the call returns at once
\* when the key was not found or the expiration is 0
GetExRead(c, k) ==
    /\ kind = "cache"
    /\ calls[c] = NoCall
    /\ LET g == mapGet(tbl, k, nowUnixMilli)
       IN  IF ~getExRefreshes(handle.expiration, g[2])
           THEN /\ res' = Result("Cache.GetEx", k, <<>>, g[1], g[2], g[3], 0, <<>>)
                /\ calls' = calls
           ELSE /\ calls' = [calls EXCEPT ![c] = [op |-> "GetEx", key |-> k, value |-> g[1]]]
                /\ res' = res
    /\ UNCHANGED <<kind, tbl, tblNextId, written, ldel, colls, handle>>
    /\ UNCHANGED coreVars

\* Cache.GetEx, lines 83-86: c.m.SetEx(key, value, c.expiration) of the value
\* caller c read
GetExRefresh(c) ==
    /\ kind = "cache"
    /\ calls[c].op = "GetEx"
    /\ LET s == mapSet(tbl, calls[c].key, calls[c].value, handle.expiration, nowUnixMilli)
       IN  /\ tbl' = s.db
           /\ res' = Result("Cache.GetEx", calls[c].key, <<>>, calls[c].value, TRUE, s.err,
                            0, <<>>)
    /\ calls' = [calls EXCEPT ![c] = NoCall]
    /\ UNCHANGED <<kind, tblNextId, written, ldel, colls, handle>>
    /\ UNCHANGED coreVars

NextCacheCalls ==
    \/ \E d \in CacheExpirations: NewCache(d)
    \/ \E k \in MapKeys, v \in {"a", "b"}: CacheSet(k, v)
    \/ \E k \in MapKeys: CacheGet(k)
    \/ \E k \in MapKeys: CacheDelete(k)
    \/ \E c \in Callers, k \in MapKeys: GetExRead(c, k)
    \/ \E c \in Callers: GetExRefresh(c)
    \/ Tick

SpecCacheCalls == InitCleanupSpec /\ [][NextCacheCalls]_vars

\* C38: the refresh of a GetEx changes only the expiry of its key's row: a
\* key that another caller's Delete removed after the read stays absent, and
\* a value that another caller's Set wrote after the read stays.
C38_GetExChangesOnlyExpiry ==
    [][\A c \in Callers:
        GetExRefresh(c)
        => IF rowOfKey(tbl, calls[c].key) = {}
           THEN rowOfKey(tbl', calls[c].key) = {}
           ELSE \A r \in rowOfKey(tbl, calls[c].key):
                   \E q \in rowOfKey(tbl', calls[c].key): q.value = r.value]_vars

(***************************************************************************)
(* Iteration (Entries, Keys, IterError of the queue and of the map).        *)
(* Entries() sets lastIterError to nil and returns the sequence, a function *)
(* that runs the query when it is ranged over; Keys() returns a function    *)
(* that calls Entries() every time it is ranged over.                       *)
(***************************************************************************)

\* what stops an iteration: nothing, the query (a closed or locked database),
\* or the decoding of a row (a value that is not of the collection's type,
\* written through another collection value on the same table)
IterFailures == {"nil", "query", "decode"}

\* Entries(): line 165 (queue), 464 (map), then the sequence is returned
Entries ==
    /\ kind \in {"queue", "map"}
    /\ handle' = [handle EXCEPT !.lastIterError = "nil", !.seq = TRUE]
    /\ res' = Result("Entries", "", <<>>, ZeroValue, TRUE, "nil", 0, <<>>)
    /\ UNCHANGED <<kind, tbl, tblNextId, written, ldel, colls, calls>>
    /\ UNCHANGED coreVars

\* what one run of the sequence yields: every entry, none when the query
\* fails, the entries before the row whose decoding fails
yielded(k, t, at, failure) ==
    LET all == IF k = "map" THEN mapEntries(t, at) ELSE {seqEntries(k, t, at)}
    IN  CASE failure = "nil" -> all
          [] failure = "query" -> {<<>>}
          [] OTHER -> UNION {{[i \in 1..n |-> e[i]] : n \in 0..(Len(e) - 1)} : e \in all}

\* the body of the sequence, lines 166-201 (queue), 465-506 (map): a failure is
\* stored in lastIterError; nothing else assigns it
runSeq(h, failure) ==
    IF failure = "nil" THEN h ELSE [h EXCEPT !.lastIterError = failure]

\* for ... range seq, to the end or to the failure, over a sequence that
\* Entries() returned before
Iterate(failure) ==
    /\ kind \in {"queue", "map"}
    /\ handle.seq
    /\ \E out \in yielded(kind, tbl, nowUnixMilli, failure):
          res' = Result("iterate", "", failure, ZeroValue, failure = "nil", "nil", 0, out)
    /\ handle' = runSeq(handle, failure)
    /\ UNCHANGED <<kind, tbl, tblNextId, written, ldel, colls, calls>>
    /\ UNCHANGED coreVars

\* for ... range m.Keys() (lines 510-518): the function calls m.Entries() and
\* ranges over what it returns
KeysIterate(failure) ==
    /\ kind = "map"
    /\ \E out \in yielded(kind, tbl, nowUnixMilli, failure):
          res' = Result("iterate keys", "", failure, ZeroValue, failure = "nil", "nil", 0,
                        [i \in DOMAIN out |-> out[i][1]])
    /\ handle' = runSeq([handle EXCEPT !.lastIterError = "nil"], failure)
    /\ UNCHANGED <<kind, tbl, tblNextId, written, ldel, colls, calls>>
    /\ UNCHANGED coreVars

\* IterError()
IterError ==
    /\ kind \in {"queue", "map"}
    /\ res' = Result("IterError", "", <<>>, ZeroValue, TRUE, handle.lastIterError, 0, <<>>)
    /\ UNCHANGED <<kind, tbl, tblNextId, written, ldel>>
    /\ UNCHANGED baseVars

NextIter ==
    \/ NewSeq("queue")
    \/ \E v \in {"a", NaN}, d \in RowTTLs: QueueEnqueue(v, d)
    \/ QueueDequeue
    \/ NewMap
    \/ \E k \in MapKeys, v \in {"a", NaN}, d \in RowTTLs: MapSet(k, v, d)
    \/ \E k \in MapKeys: MapDelete(k)
    \/ Entries
    \/ \E failure \in IterFailures: Iterate(failure)
    \/ \E failure \in IterFailures: KeysIterate(failure)
    \/ IterError
    \/ Tick

SpecIter == InitCleanupSpec /\ [][NextIter]_vars

\* C35: after an iteration that ran to its end with no failure IterError()
\* returns nil, whatever an earlier iteration stored, one over the same
\* sequence value included.
C35_IterErrorReset ==
    [][(/\ res'.op \in {"iterate", "iterate keys"}
        /\ res'.ok
        /\ (Iterate("nil") \/ KeysIterate("nil")))
       => handle'.lastIterError = "nil"]_vars

(***************************************************************************)
(* Transactions of concurrent callers (execTransaction in helpers.go;      *)
(* List.appendEx; Dequeue and Pop).  db.Begin() starts a deferred           *)
(* transaction on a connection of the pool; the database is SQLite in WAL   *)
(* mode (storage.go: the DSN's _journal=WAL): the transaction reads the     *)
(* snapshot its first SELECT took, and its write fails with SQLITE_BUSY     *)
(* ("database is locked") when another connection has committed since.     *)
(* A statement of a transaction is one step; the transaction commits with   *)
(* its write.                                                               *)
(***************************************************************************)
txBusy(snap, t) == snap # t

\* an INSERT OR REPLACE sent outside the transaction
insertAt_replace(t, snap, row) ==
    [err |-> "nil", db |-> (t \ {r \in t : r.position = row.position}) \cup {row}]

\* the INSERT of appendEx in its transaction; position is the PRIMARY KEY of
\* the table
insertAt(t, snap, row) ==
    IF txBusy(snap, t) THEN [err |-> "database is locked", db |-> t]
    ELSE IF \E r \in t: r.position = row.position
    THEN [err |-> "UNIQUE constraint failed", db |-> t]
    ELSE [err |-> "nil", db |-> t \cup {row}]

\* the callers that are in an Append
appending == {c \in Callers : calls[c].op = "Append"}

\* appendEx, lines 72-87: caller c encodes the value, begins the transaction
\* and reads the next position
AppendRead(c, v, expiration) ==
    /\ kind = "list"
    /\ calls[c] = NoCall
    /\ tblNextId + Cardinality(appending) <= MaxAppends
    /\ IF encodeFails(v)
       THEN /\ res' = Result("List.Append", "", [v |-> v, d |-> expiration], ZeroValue, FALSE,
                             "encode", 0, <<>>)
            /\ calls' = calls
       ELSE /\ calls' = [calls EXCEPT ![c] = [op |-> "Append", v |-> v, d |-> expiration,
                                              snap |-> tbl, nextPos |-> nextPosition(tbl)]]
            /\ res' = res
    /\ UNCHANGED <<kind, tbl, tblNextId, written, ldel, colls, handle>>
    /\ UNCHANGED coreVars

\* appendEx, lines 89-105: the INSERT at the position read, then Commit, or
\* Rollback on its error
AppendInsert(c) ==
    /\ kind = "list"
    /\ calls[c].op = "Append"
    /\ LET s == insertAt(tbl, calls[c].snap,
                         [position |-> calls[c].nextPos, value |-> encode(calls[c].v),
                          expiresAt |-> getKeyExpirationAsMilli(calls[c].d, nowUnixMilli),
                          createdAt |-> nowUnixMilli])
       IN  /\ tbl' = s.db
           /\ tblNextId' = IF s.err = "nil" THEN tblNextId + 1 ELSE tblNextId
           /\ res' = Result("List.Append", "", [v |-> calls[c].v, d |-> calls[c].d], ZeroValue,
                            FALSE, s.err, 0, <<>>)
    /\ calls' = [calls EXCEPT ![c] = NoCall]
    /\ UNCHANGED <<kind, written, ldel, colls, handle>>
    /\ UNCHANGED coreVars

NextAppends ==
    \/ NewList
    \/ \E c \in Callers, v \in {"a", NaN}, d \in RowTTLs: AppendRead(c, v, d)
    \/ \E c \in Callers: AppendInsert(c)
    \/ ListSize
    \/ Tick

SpecAppends == InitCleanupSpec /\ [][NextAppends]_vars

\* C36: of concurrent Appends, each one that returns nil has added one row,
\* holding its value at a position no other row has, and has left every other
\* row as it was; one that returns an error has left the table as it was.
C36_AppendsDistinct ==
    [][\A c \in Callers:
        AppendInsert(c)
        => IF res'.err = "nil"
           THEN \E row \in tbl' \ tbl:
                   /\ tbl' = tbl \cup {row}
                   /\ row.value = encode(calls[c].v)
                   /\ \A r \in tbl: r.position # row.position
                   /\ \A r1, r2 \in tbl': r1.position = r2.position => r1 = r2
           ELSE tbl' = tbl]_vars

\* two callers had read the same next position; one Append has returned an
\* error and the other's row is stored
C36_Witness ==
    /\ kind = "list"
    /\ res.op = "List.Append" /\ res.err = "database is locked"
    /\ \A c \in Callers: calls[c] = NoCall
    /\ Cardinality(tbl) = 1

\* a DELETE ... WHERE id = ? sent outside the transaction of the SELECT
deleteById_noTx(t, snap, id) == [err |-> "nil", db |-> {r \in t : r.id # id}]

\* the DELETE ... WHERE id = ? of Dequeue / Pop in its transaction
deleteById(t, snap, id) ==
    IF txBusy(snap, t) THEN [err |-> "database is locked", db |-> t]
    ELSE [err |-> "nil", db |-> {r \in t : r.id # id}]

\* Dequeue / Pop, lines 91-106: caller c begins the transaction and selects
\* the first row; with no row, sql.ErrNoRows rolls back and not found is returned
TakeSelect(c) ==
    /\ kind \in {"queue", "stack", "pq"}
    /\ calls[c] = NoCall
    /\ LET first == firstRow(kind, tbl, nowUnixMilli)
       IN  IF first = {}
           THEN /\ res' = Result("Take", "", Nil, ZeroValue, FALSE, "nil", 0, <<>>)
                /\ calls' = calls
           ELSE /\ calls' = [calls EXCEPT ![c] = [op |-> "Take", snap |-> tbl,
                                                  row |-> CHOOSE x \in first: TRUE]]
                /\ res' = res
    /\ UNCHANGED <<kind, tbl, tblNextId, written, ldel, colls, handle>>
    /\ UNCHANGED coreVars

\* Dequeue / Pop, lines 108-133: the DELETE by the id read, the decoding of the
\* value read, then Commit, or Rollback on an error
TakeDelete(c) ==
    /\ kind \in {"queue", "stack", "pq"}
    /\ calls[c].op = "Take"
    /\ LET s == deleteById(tbl, calls[c].snap, calls[c].row.id)
       IN  /\ tbl' = s.db
           /\ res' = IF s.err = "nil"
                     THEN Result("Take", "", calls[c].row.id, decode(calls[c].row.value), TRUE,
                                 "nil", 0, <<>>)
                     ELSE Result("Take", "", calls[c].row.id, ZeroValue, FALSE, s.err, 0, <<>>)
    /\ calls' = [calls EXCEPT ![c] = NoCall]
    /\ UNCHANGED <<kind, tblNextId, written, ldel, colls, handle>>
    /\ UNCHANGED coreVars

NextTakes ==
    \/ \E k \in {"queue", "stack", "pq"}: NewSeq(k)
    \/ \E v \in {"a", NaN}, d \in RowTTLs: QueueEnqueue(v, d)
    \/ \E v \in {"a", NaN}, d \in RowTTLs: StackPush(v, d)
    \/ \E v \in {"a", NaN}, p \in Priorities, d \in RowTTLs: PQEnqueue(v, p, d)
    \/ \E c \in Callers: TakeSelect(c)
    \/ \E c \in Callers: TakeDelete(c)
    \/ CollSweep
    \/ Tick

SpecTakes == InitCleanupSpec /\ [][NextTakes]_vars

\* C37: of concurrent Dequeue / Pop calls, each one that returns (value, true,
\* nil) returns the value of a row that was stored until its DELETE and is
\* gone after it; as an id is given to one row only, no element is returned
\* by two calls.
C37_TakenOnce ==
    [][\A c \in Callers:
        (res'.op = "Take" /\ res'.ok /\ res'.err = "nil" /\ TakeDelete(c))
        => /\ calls[c].row \in tbl
           /\ calls[c].row \notin tbl'
           /\ \A r \in tbl': r.id # calls[c].row.id
           /\ res'.value = decode(calls[c].row.value)]_vars

\* two callers had selected the same row; one call has returned its value and
\* the other an error
C37_Witness ==
    /\ kind \in {"queue", "stack", "pq"}
    /\ res.op = "Take" /\ res.err = "database is locked"
    /\ \A c \in Callers: calls[c] = NoCall
    /\ \A r \in tbl: r.id # res.arg

(***************************************************************************)
(* The sweep next to the calls on a Map, a Set, a Queue, a Stack and a      *)
(* PriorityQueue.                                                           *)
(***************************************************************************)
NextSwept ==
    \/ NewMap
    \/ \E k \in MapKeys, v \in {"a", NaN}, e \in RowTTLs: MapSet(k, v, e)
    \/ \E k \in MapKeys: MapHas(k)
    \/ \E k \in MapKeys: MapDelete(k)
    \/ NewSet
    \/ \E v \in {"a", "b", NaN}, e \in RowTTLs: SetAdd(v, e)
    \/ \E v \in {"a", "b"}: SetHas(v)
    \/ \E k \in {"queue", "stack", "pq"}: NewSeq(k)
    \/ \E v \in {"a", NaN}, d \in RowTTLs: QueueEnqueue(v, d)
    \/ QueueDequeue
    \/ QueuePeek
    \/ \E v \in {"a", NaN}, d \in RowTTLs: StackPush(v, d)
    \/ StackPop
    \/ StackPeek
    \/ \E v \in {"a", NaN}, p \in Priorities, d \in RowTTLs: PQEnqueue(v, p, d)
    \/ PQDequeue
    \/ PQPeek
    \/ CollSweep
    \/ Tick

SpecSwept == InitCleanupSpec /\ [][NextSwept]_vars

\* the instants from now on
laterTimes == {t \in Times : t >= nowUnixMilli}

\* C39: a DELETE of the sweep changes the result of no call on a Map, a Set,
\* a Queue, a Stack or a PriorityQueue, at that instant or later: Has, MGet,
\* Size, Entries, Peek and Dequeue / Pop return from the table after it what
\* they return from the table before it; and the tables that Set, Add, Delete
\* and Dequeue / Pop leave from the one and from the other hold the same live
\* rows, so the results stay the same along any sequence of calls.
C39_SweepTransparent ==
    [][CollSweep
       => \A t \in laterTimes:
          /\ liveRows(tbl', t) = liveRows(tbl, t)
          /\ kind = "map" =>
                /\ \A k \in MapKeys: mapHas(tbl', k, t) = mapHas(tbl, k, t)
                /\ \A keys \in SUBSET MapKeys: mapMGet(tbl', keys, t) = mapMGet(tbl, keys, t)
                /\ mapSize(tbl', t) = mapSize(tbl, t)
                /\ mapEntries(tbl', t) = mapEntries(tbl, t)
                /\ \A k \in MapKeys, e \in RowTTLs, u \in laterTimes:
                      /\ liveRows(mapUpsert(tbl', k, "a", getKeyExpirationAsMilli(e, t), t), u)
                           = liveRows(mapUpsert(tbl, k, "a", getKeyExpirationAsMilli(e, t), t), u)
                      /\ liveRows(mapDelete(tbl', k), u) = liveRows(mapDelete(tbl, k), u)
          /\ kind = "set" =>
                /\ \A v \in {"a", "b"}: setHas(tbl', v, t) = setHas(tbl, v, t)
                /\ setSize(tbl', t) = setSize(tbl, t)
                /\ setEntries(tbl', t) = setEntries(tbl, t)
                /\ \A v \in {"a", "b"}, e \in RowTTLs, u \in laterTimes:
                      liveRows(setUpsert(tbl', v, getKeyExpirationAsMilli(e, t), t), u)
                        = liveRows(setUpsert(tbl, v, getKeyExpirationAsMilli(e, t), t), u)
          /\ kind \in {"queue", "stack", "pq"} =>
                /\ seqPeek(kind, tbl', t) = seqPeek(kind, tbl, t)
                /\ seqSize(tbl', t) = seqSize(tbl, t)
                /\ seqEntries(kind, tbl', t) = seqEntries(kind, tbl, t)
                /\ LET d1 == seqTake(kind, tbl', t)
                       d2 == seqTake(kind, tbl, t)
                   IN  /\ <<d1.value, d1.ok, d1.err>> = <<d2.value, d2.ok, d2.err>>
                       /\ \A u \in laterTimes: liveRows(d1.tbl, u) = liveRows(d2.tbl, u)]_vars

\* the sweep has deleted the expired row of a key, next to a live row
C39_Witness ==
    /\ kind = "map"
    /\ \E k \in MapKeys:
          /\ written[k].until # 0 /\ written[k].until >= 0 /\ written[k].until <= nowUnixMilli
          /\ rowOfKey(tbl, k) = {}
    /\ \E r \in tbl: liveRow(r, nowUnixMilli)

(***************************************************************************)
(* The List's mutations on rows that have expired and are still stored.     *)
(***************************************************************************)

\* the position holds a row, and it has expired
expiredAt(t, position, at) ==
    /\ rowsAt(t, position) # {}
    /\ \A r \in rowsAt(t, position): ~liveRow(r, at)

\* C40: the List's mutations take an expired row for an absent one, swept or
\* not: Set/SetEx and Delete on a position whose row has expired return the
\* position-not-found error and change nothing, and Append stores its value
\* at the position after the last live row.
C40_ExpiredRowAbsent ==
    [][/\ (/\ res'.op = "List.Set"
           /\ ListSet(res'.arg.position, res'.arg.v, res'.arg.d)
           /\ ~encodeFails(res'.arg.v)
           /\ expiredAt(tbl, res'.arg.position, nowUnixMilli))
          => /\ res'.err = "position not found"
             /\ tbl' = tbl
       /\ (/\ res'.op = "List.Delete"
           /\ ListDelete(res'.arg.position)
           /\ expiredAt(tbl, res'.arg.position, nowUnixMilli))
          => /\ res'.err = "position not found"
             /\ tbl' = tbl
       /\ (/\ res'.op = "List.Append"
           /\ ListAppend(res'.arg.v, res'.arg.d)
           /\ res'.err = "nil")
          => \E r \in tbl' \ tbl:
                r.position = nextPosition(liveRows(tbl, nowUnixMilli))]_vars

====
